---- MODULE Spec2Model ----
(***************************************************************************)
(* Model of the LangGraph command-line client talk_to_agent.py: the        *)
(* stream reconciliation loop of send_message, its session-loss recovery,  *)
(* and the thread-id helpers it calls.                                     *)
(*                                                                         *)
(* Python values are modelled as records of one shape,                     *)
(*   [t, s, items, keys]                                                   *)
(* t is the Python type, s the characters of a str (a sequence of atoms,   *)
(* so that join, strip and substring tests are computed, not assumed),     *)
(* items the elements of a list or the values of a dict / the attributes   *)
(* of an object, keys the dict keys / attribute names in insertion order.  *)
(***************************************************************************)
EXTENDS Naturals, Sequences, FiniteSets

(***************************************************************************)
(* Bounds of the model                                                     *)
(***************************************************************************)
\* events consumed from one stream attempt before it closes or raises
MaxEvents == 2

\* lines read by the interactive loop in one session
MaxTurns == 2

(***************************************************************************)
(* Python values                                                           *)
(***************************************************************************)
None == [t |-> "none", s |-> <<>>, items |-> <<>>, keys |-> <<>>]

Str(chars) == [t |-> "str", s |-> chars, items |-> <<>>, keys |-> <<>>]

Int(digits) == [t |-> "int", s |-> digits, items |-> <<>>, keys |-> <<>>]

List(xs) == [t |-> "list", s |-> <<>>, items |-> xs, keys |-> <<>>]

Dict(ks, vs) == [t |-> "dict", s |-> <<>>, items |-> vs, keys |-> ks]

Obj(ks, vs) == [t |-> "obj", s |-> <<>>, items |-> vs, keys |-> ks]

IsNone(v) == v.t = "none"

IsStr(v) == v.t = "str"

IsList(v) == v.t = "list"

IsDict(v) == v.t = "dict"

IsObj(v) == v.t = "obj"

\* Python truthiness: bool(v)
Truthy(v) ==
    CASE v.t = "none" -> FALSE
      [] v.t = "str"  -> v.s # <<>>
      [] v.t = "int"  -> v.s # <<"0">>
      [] v.t = "list" -> v.items # <<>>
      [] v.t = "dict" -> v.keys # <<>>
      [] OTHER        -> TRUE

\* k in d  (dict membership)
HasKey(d, k) == IsDict(d) /\ \E i \in 1..Len(d.keys) : d.keys[i] = k

Lookup(v, k) ==
    IF \E i \in 1..Len(v.keys) : v.keys[i] = k
    THEN v.items[CHOOSE i \in 1..Len(v.keys) : v.keys[i] = k]
    ELSE None

\* d.get(k) on a dict
Get(d, k) == IF IsDict(d) THEN Lookup(d, k) ELSE None

\* hasattr(x, k): only object-like values carry the attributes the client probes
HasAttr(x, k) == IsObj(x) /\ \E i \in 1..Len(x.keys) : x.keys[i] = k

\* getattr(x, k, None)
GetAttr(x, k) == IF IsObj(x) THEN Lookup(x, k) ELSE None

\* a or b
Or(a, b) == IF Truthy(a) THEN a ELSE b

\* needle in text, for a one-atom needle
Contains(text, atom) == \E i \in 1..Len(text) : text[i] = atom

\* text.startswith(atom)
StartsWith(text, atom) == Len(text) > 0 /\ text[1] = atom

RECURSIVE JoinWith(_, _)
\* sep.join(parts)
JoinWith(parts, sep) ==
    IF parts = <<>> THEN <<>>
    ELSE IF Len(parts) = 1 THEN parts[1]
    ELSE parts[1] \o sep \o JoinWith(Tail(parts), sep)

RECURSIVE PyRepr(_)
RECURSIVE PyReprSeq(_)
\* repr(v): how a value prints inside a container
PyRepr(v) ==
    CASE v.t = "none" -> <<"None">>
      [] v.t = "str"  -> <<"'">> \o v.s \o <<"'">>
      [] v.t = "int"  -> v.s
      [] v.t = "list" -> <<"[">> \o PyReprSeq(v.items) \o <<"]">>
      [] v.t = "dict" -> <<"{">> \o PyReprSeq(v.items) \o <<"}">>
      [] OTHER        -> <<"<object>">>

PyReprSeq(xs) ==
    IF xs = <<>> THEN <<>>
    ELSE IF Len(xs) = 1 THEN PyRepr(xs[1])
    ELSE PyRepr(xs[1]) \o <<",">> \o PyReprSeq(Tail(xs))

\* str(v)
PyStr(v) == IF IsStr(v) THEN v.s ELSE PyRepr(v)

(***************************************************************************)
(* extract_message_content                                                 *)
(***************************************************************************)
RECURSIVE ContentParts(_)
\* the parts list built from a list-valued content
ContentParts(xs) ==
    IF xs = <<>> THEN <<>>
    ELSE LET part == xs[1]
             rest == ContentParts(Tail(xs))
         IN  IF IsStr(part) THEN <<part.s>> \o rest
             ELSE IF IsDict(part)
             THEN IF HasKey(part, "text") /\ IsStr(Get(part, "text"))
                  THEN <<Get(part, "text").s>> \o rest
                  ELSE IF HasKey(part, "content") /\ IsStr(Get(part, "content"))
                       THEN <<Get(part, "content").s>> \o rest
                       ELSE rest
             ELSE rest

\* an extraction that stringifies a missing content as well
ExtractStringifyingNone(message) ==
    LET attr    == GetAttr(message, "content")
        content == IF IsNone(attr) /\ IsDict(message)
                   THEN Get(message, "content") ELSE attr
    IN  IF IsStr(content) THEN content.s
        ELSE IF IsList(content)
        THEN LET parts == ContentParts(content.items)
             IN  IF parts # <<>> THEN JoinWith(parts, <<"\n">>)
                 ELSE PyStr(content)
        ELSE PyStr(content)

extract_message_content(message) ==
    LET attr    == GetAttr(message, "content")
        content == IF IsNone(attr) /\ IsDict(message)
                   THEN Get(message, "content") ELSE attr
    IN  IF IsStr(content) THEN content.s
        ELSE IF IsList(content)
        THEN LET parts == ContentParts(content.items)
             IN  IF parts # <<>> THEN JoinWith(parts, <<"\n">>)
                 ELSE PyStr(content)
        ELSE IF IsNone(content) THEN <<>> ELSE PyStr(content)

(***************************************************************************)
(* Recursive collectors and the metadata preference                        *)
(***************************************************************************)
RECURSIVE _collect_messages_recursively(_)
RECURSIVE CollectMessagesSeq(_)
_collect_messages_recursively(node) ==
    IF IsDict(node)
    THEN LET msgs == Get(node, "messages")
         IN  (IF IsList(msgs) THEN msgs.items ELSE <<>>)
             \o CollectMessagesSeq(node.items)
    ELSE IF IsList(node) THEN CollectMessagesSeq(node.items)
    ELSE <<>>

CollectMessagesSeq(xs) ==
    IF xs = <<>> THEN <<>>
    ELSE _collect_messages_recursively(xs[1]) \o CollectMessagesSeq(Tail(xs))

\* role in ("ai", "assistant")
IsAssistantRole(role) == role = Str(<<"ai">>) \/ role = Str(<<"assistant">>)

RECURSIVE _collect_assistant_texts_recursively(_)
RECURSIVE CollectAssistantTextsSeq(_)
_collect_assistant_texts_recursively(x) ==
    IF IsDict(x)
    THEN LET content == Get(x, "content")
             role    == Or(Get(x, "type"), Get(x, "role"))
         IN  (IF IsStr(content) /\ IsAssistantRole(role)
              THEN <<content.s>> ELSE <<>>)
             \o CollectAssistantTextsSeq(x.items)
    ELSE IF IsList(x) THEN CollectAssistantTextsSeq(x.items)
    ELSE LET role_obj    == Or(GetAttr(x, "type"), GetAttr(x, "role"))
             content_obj == GetAttr(x, "content")
         IN  IF IsStr(content_obj) /\ IsAssistantRole(role_obj)
             THEN <<content_obj.s>> ELSE <<>>

CollectAssistantTextsSeq(xs) ==
    IF xs = <<>> THEN <<>>
    ELSE _collect_assistant_texts_recursively(xs[1])
         \o CollectAssistantTextsSeq(Tail(xs))

RECURSIVE _collect_metadata_recursively(_)
RECURSIVE CollectMetadataSeq(_)
_collect_metadata_recursively(x) ==
    IF IsDict(x)
    THEN LET rm == Get(x, "response_metadata")
         IN  (IF IsDict(rm) THEN <<rm>> ELSE <<>>)
             \o CollectMetadataSeq(x.items)
    ELSE IF IsList(x) THEN CollectMetadataSeq(x.items)
    ELSE IF HasAttr(x, "response_metadata")
            /\ IsDict(GetAttr(x, "response_metadata"))
         THEN <<GetAttr(x, "response_metadata")>>
         ELSE <<>>

CollectMetadataSeq(xs) ==
    IF xs = <<>> THEN <<>>
    ELSE _collect_metadata_recursively(xs[1]) \o CollectMetadataSeq(Tail(xs))

\* a preference that always takes the map seen last
PreferLatest(current, new_md) ==
    IF IsNone(new_md) THEN current ELSE new_md

\* a preference in which a later irbot map replaces an earlier one
PreferLatestIrbot(current, new_md) ==
    IF IsNone(new_md) THEN current
    ELSE IF IsNone(current) THEN new_md
    ELSE IF HasKey(new_md, "irbot") THEN new_md
    ELSE IF HasKey(current, "irbot") THEN current
    ELSE new_md

_prefer_irbot_metadata(current, new_md) ==
    IF IsNone(new_md) THEN current
    ELSE IF IsNone(current) THEN new_md
    ELSE LET new_has_irbot == HasKey(new_md, "irbot")
             cur_has_irbot == HasKey(current, "irbot")
         IN  IF new_has_irbot /\ ~cur_has_irbot THEN new_md
             ELSE IF cur_has_irbot THEN current
             ELSE new_md

(***************************************************************************)
(* The body of the stream loop of send_message.  The locals of one attempt *)
(* are the record                                                          *)
(*   [last_text, assembled_text, last_metadata, printed_any, seen, out]    *)
(* seen is seen_texts_this_event, out the texts written to stdout while    *)
(* the current event is processed, in order.                               *)
(***************************************************************************)
FreshLocals ==
    [last_text |-> <<>>, assembled_text |-> <<>>, last_metadata |-> None,
     printed_any |-> FALSE, seen |-> {}, out |-> <<>>]

\* if txt not in seen_texts_this_event: add it, write it, printed_any = True
WriteOnce(st, txt) ==
    IF txt \in st.seen THEN st
    ELSE [st EXCEPT !.seen = @ \cup {txt}, !.out = Append(@, txt),
                    !.printed_any = TRUE]

\* sys.stdout.write without a look at the seen-set
WriteAlways(st, txt) == [st EXCEPT !.out = Append(@, txt)]

\* last_metadata = m's response_metadata when it is a dict (dict or object m)
AssignMetadata(st, m) ==
    IF IsDict(m) /\ IsDict(Get(m, "response_metadata"))
    THEN [st EXCEPT !.last_metadata = Get(m, "response_metadata")]
    ELSE IF HasAttr(m, "response_metadata")
            /\ IsDict(GetAttr(m, "response_metadata"))
         THEN [st EXCEPT !.last_metadata = GetAttr(m, "response_metadata")]
         ELSE st

\* last_metadata = _prefer_irbot_metadata(last_metadata, m's response_metadata)
PreferMetadata(st, m) ==
    IF IsDict(m) /\ IsDict(Get(m, "response_metadata"))
    THEN [st EXCEPT !.last_metadata =
              _prefer_irbot_metadata(@, Get(m, "response_metadata"))]
    ELSE IF HasAttr(m, "response_metadata")
            /\ IsDict(GetAttr(m, "response_metadata"))
         THEN [st EXCEPT !.last_metadata =
                   _prefer_irbot_metadata(@, GetAttr(m, "response_metadata"))]
         ELSE st

RECURSIVE ListLoop(_, _)
\* for m in data, when data is a list
ListLoop(st, ms) ==
    IF ms = <<>> THEN st
    ELSE LET m   == ms[1]
             txt == extract_message_content(m)
             s1  == IF txt # <<>>
                    THEN WriteOnce([st EXCEPT !.last_text = txt], txt)
                    ELSE st
         IN  ListLoop(AssignMetadata(s1, m), Tail(ms))

ListRule(st, evt, data) ==
    IF IsList(data) THEN ListLoop(st, data.items) ELSE st

\* the messages the nested-update rule looks at
NestedMessages(data) ==
    LET direct == Get(data, "messages")
        RECURSIVE NodeMessages(_)
        NodeMessages(vs) ==
            IF vs = <<>> THEN <<>>
            ELSE (IF IsDict(vs[1]) /\ IsList(Get(vs[1], "messages"))
                  THEN Get(vs[1], "messages").items ELSE <<>>)
                 \o NodeMessages(Tail(vs))
    IN  IF IsList(direct) THEN direct.items
        ELSE IF NodeMessages(data.items) # <<>> THEN NodeMessages(data.items)
        ELSE _collect_messages_recursively(data)

\* getattr(m, "type") or m.get("type") or m.get("role")
MessageRole(m) == Or(GetAttr(m, "type"), Or(Get(m, "type"), Get(m, "role")))

RECURSIVE NestedLoopCapturing(_, _)
\* a nested-update loop that also keeps the assistant text as the answer
NestedLoopCapturing(st, ms) ==
    IF ms = <<>> THEN st
    ELSE LET m   == ms[1]
             txt == extract_message_content(m)
             s1  == IF IsAssistantRole(MessageRole(m)) /\ txt # <<>>
                    THEN WriteOnce([st EXCEPT !.last_text = txt], txt)
                    ELSE st
         IN  NestedLoopCapturing(PreferMetadata(s1, m), Tail(ms))

RECURSIVE NestedLoop(_, _)
NestedLoop(st, ms) ==
    IF ms = <<>> THEN st
    ELSE LET m   == ms[1]
             txt == extract_message_content(m)
             s1  == IF IsAssistantRole(MessageRole(m)) /\ txt # <<>>
                    THEN WriteOnce(st, txt) ELSE st
         IN  NestedLoop(PreferMetadata(s1, m), Tail(ms))

NestedRule(st, evt, data) ==
    IF evt # <<>> /\ Truthy(data) /\ IsDict(data)
    THEN NestedLoop(st, NestedMessages(data))
    ELSE st

ValuesRule(st, evt, data) ==
    IF evt = <<"values">>
    THEN LET candidate_text == extract_message_content(data)
             s1 == IF candidate_text # <<>>
                   THEN [st EXCEPT !.last_text = candidate_text] ELSE st
         IN  AssignMetadata(s1, data)
    ELSE st

\* the fragment of a token-delta event
PartText(data) ==
    IF IsDict(data)
    THEN IF HasKey(data, "chunk") THEN extract_message_content(Get(data, "chunk"))
         ELSE IF HasKey(data, "delta")
              THEN extract_message_content(Get(data, "delta"))
         ELSE IF HasKey(data, "content") /\ IsStr(Get(data, "content"))
              THEN Get(data, "content").s
         ELSE <<>>
    ELSE extract_message_content(data)

TokenRule(st, evt, data) ==
    IF Contains(evt, "on_chat_model_stream")
    THEN LET part_text == PartText(data)
         IN  IF part_text # <<>>
             THEN WriteAlways([st EXCEPT !.assembled_text = Append(@, part_text)],
                              part_text)
             ELSE st
    ELSE st

RECURSIVE MessagesLoop(_, _)
\* for m in messages, when the payload exposes a messages list
MessagesLoop(st, ms) ==
    IF ms = <<>> THEN st
    ELSE LET m    == ms[1]
             text == extract_message_content(m)
             s1   == IF text # <<>>
                     THEN WriteOnce([st EXCEPT !.last_text = text], text)
                     ELSE st
         IN  MessagesLoop(AssignMetadata(s1, m), Tail(ms))

\* the data itself looks like a message with content
MessageLikeRule(st, data) ==
    IF HasAttr(data, "content")
    THEN LET maybe_text == extract_message_content(data)
         IN  IF maybe_text # <<>>
             THEN WriteOnce([st EXCEPT !.assembled_text = Append(@, maybe_text)],
                            maybe_text)
             ELSE st
    ELSE st

MessagesRule(st, evt, data) ==
    LET messages_obj ==
            IF IsDict(data) /\ Truthy(Get(data, "messages"))
            THEN Get(data, "messages")
            ELSE IF HasAttr(data, "messages") THEN GetAttr(data, "messages")
            ELSE None
    IN  IF ~IsNone(messages_obj)
        THEN IF IsList(messages_obj) /\ messages_obj.items # <<>>
             THEN MessagesLoop(st, messages_obj.items)
             ELSE st
        ELSE MessageLikeRule(st, data)

RECURSIVE ScanTexts(_, _)
ScanTexts(st, texts) ==
    IF texts = <<>> THEN st
    ELSE ScanTexts(WriteOnce(st, texts[1]), Tail(texts))

RECURSIVE ScanMetadata(_, _)
ScanMetadata(st, mets) ==
    IF mets = <<>> THEN st
    ELSE ScanMetadata(
             [st EXCEPT !.last_metadata = _prefer_irbot_metadata(@, mets[1])],
             Tail(mets))

UpdatesScanRule(st, evt, data) ==
    IF StartsWith(evt, "updates") /\ (IsDict(data) \/ IsList(data))
    THEN ScanMetadata(ScanTexts(st, _collect_assistant_texts_recursively(data)),
                      _collect_metadata_recursively(data))
    ELSE st

RECURSIVE KeyContainerLoop(_, _, _)
\* for key in ("result", "output", "final_output", "value", "response")
KeyContainerLoop(st, data, ks) ==
    IF ks = <<>> THEN st
    ELSE LET key == ks[1]
             candidate_text == extract_message_content(Get(data, key))
             s1 == IF HasKey(data, key) /\ ~IsNone(Get(data, key))
                      /\ candidate_text # <<>>
                   THEN [WriteAlways(st, candidate_text) EXCEPT
                            !.last_text = candidate_text, !.printed_any = TRUE]
                   ELSE st
         IN  KeyContainerLoop(s1, data, Tail(ks))

KeyContainerRule(st, evt, data) ==
    IF IsDict(data)
    THEN KeyContainerLoop(st, data,
             <<"result", "output", "final_output", "value", "response">>)
    ELSE st

RECURSIVE AttrContainerLoop(_, _, _)
\* for attr in ("value", "output", "result", "final_output", "response")
AttrContainerLoop(st, data, as) ==
    IF as = <<>> THEN st
    ELSE LET attr == as[1]
             candidate_text == extract_message_content(GetAttr(data, attr))
             s1 == IF HasAttr(data, attr) /\ ~IsNone(GetAttr(data, attr))
                      /\ candidate_text # <<>>
                   THEN [WriteAlways(st, candidate_text) EXCEPT
                            !.last_text = candidate_text, !.printed_any = TRUE]
                   ELSE st
         IN  AttrContainerLoop(s1, data, Tail(as))

AttrContainerRule(st, evt, data) ==
    AttrContainerLoop(st, data,
        <<"value", "output", "result", "final_output", "response">>)

\* one iteration of "async for chunk in client.runs.stream(...)"
ProcessEvent(st, evt, data) ==
    LET s0 == [st EXCEPT !.seen = {}, !.out = <<>>]
        s1 == ListRule(s0, evt, data)
        s2 == NestedRule(s1, evt, data)
        s3 == ValuesRule(s2, evt, data)
        s4 == TokenRule(s3, evt, data)
        s5 == MessagesRule(s4, evt, data)
        s6 == UpdatesScanRule(s5, evt, data)
        s7 == KeyContainerRule(s6, evt, data)
    IN  AttrContainerRule(s7, evt, data)

(***************************************************************************)
(* Inputs: the payloads the remote run may stream, the errors it may       *)
(* raise, and what threads.create() may return                             *)
(***************************************************************************)
Msg(role, text) == Dict(<<"type", "content">>, <<Str(<<role>>), Str(text)>>)

MsgMd(role, text, md) ==
    Dict(<<"type", "content", "response_metadata">>,
         <<Str(<<role>>), Str(text), md>>)

IrbotMd == Dict(<<"irbot">>, <<Dict(<<"columns">>, <<List(<<Str(<<"x">>)>>)>>)>>)

PlainMd == Dict(<<"a">>, <<Int(<<"1">>)>>)

\* a second irbot payload, and further generic maps
IrbotMd2 == Dict(<<"irbot">>, <<Dict(<<"columns">>, <<List(<<Str(<<"y">>)>>)>>)>>)

OtherMd == Dict(<<"b">>, <<Int(<<"2">>)>>)

EmptyMd == Dict(<<>>, <<>>)

\* the metadata maps handed to _prefer_irbot_metadata (None: no map)
MdPool ==
    {None, EmptyMd, PlainMd, OtherMd, IrbotMd, IrbotMd2,
     Dict(<<"a", "irbot">>, <<Int(<<"1">>), Str(<<"x">>)>>),
     Dict(<<"irbot">>, <<None>>)}

Event(evt, data) == [evt |-> evt, data |-> data]

\* chunk.event / chunk.data pairs
Events ==
    << \* values snapshot: the conversation so far, assistant last
       Event(<<"values">>,
             Dict(<<"messages">>,
                  <<List(<<Msg("human", <<"Q">>), Msg("ai", <<"A">>)>>)>>)),
       \* values snapshot whose last message is not the assistant's
       Event(<<"values">>,
             Dict(<<"messages">>,
                  <<List(<<Msg("human", <<"Q">>), Msg("ai", <<"A">>),
                           Msg("tool", <<"B">>)>>)>>)),
       \* values snapshot of the input alone
       Event(<<"values">>,
             Dict(<<"messages">>, <<List(<<Msg("human", <<"Q">>)>>)>>)),
       \* values event carrying a single AIMessage-like dict
       Event(<<"values">>, MsgMd("ai", <<"B">>, IrbotMd)),
       \* token deltas, one per accepted shape
       Event(<<"events", "on_chat_model_stream">>,
             Dict(<<"chunk">>, <<Dict(<<"content">>, <<Str(<<"x">>)>>)>>)),
       Event(<<"events", "on_chat_model_stream">>,
             Dict(<<"delta">>,
                  <<Dict(<<"content">>,
                         <<List(<<Dict(<<"text">>, <<Str(<<"y">>)>>),
                                  Str(<<"y">>)>>)>>)>>)),
       Event(<<"events", "on_chat_model_stream">>,
             Dict(<<"content">>, <<Str(<<"z">>)>>)),
       Event(<<"events", "on_chat_model_stream">>,
             Obj(<<"type", "content">>,
                 <<Str(<<"AIMessageChunk">>), Str(<<"w">>)>>)),
       \* updates nested under a node name
       Event(<<"updates">>,
             Dict(<<"agent">>,
                  <<Dict(<<"messages">>,
                         <<List(<<MsgMd("ai", <<"A">>, PlainMd)>>)>>)>>)),
       \* the same assistant text under two nodes
       Event(<<"updates">>,
             Dict(<<"agent", "tools">>,
                  <<Dict(<<"messages">>,
                         <<List(<<MsgMd("ai", <<"A">>, IrbotMd2)>>)>>),
                    Dict(<<"messages">>,
                         <<List(<<Msg("assistant", <<"A">>)>>)>>)>>)),
       \* an update with a messages list and a result container
       Event(<<"updates">>,
             Dict(<<"messages", "result">>,
                  <<List(<<Msg("ai", <<"A">>)>>), Msg("ai", <<"A">>)>>)),
       \* messages mode: a list of [message chunk, metadata]
       Event(<<"messages">>,
             List(<<MsgMd("ai", <<"B">>, PlainMd),
                    Dict(<<"run_id">>, <<Str(<<"r">>)>>)>>)),
       \* an object exposing a result attribute
       Event(<<"custom">>,
             Obj(<<"value">>, <<MsgMd("ai", <<"B">>, PlainMd)>>)),
       \* events no rule extracts anything from
       Event(<<"metadata">>, Dict(<<"run_id">>, <<Str(<<"r">>)>>)),
       Event(<<>>, None) >>

\* str(exc) of what the stream may raise
Errors ==
    { <<"HTTP", "404">>, <<"Not Found">>, <<"500", "Server Error">>,
      <<"not found">> }

\* the id the server gives a new thread, and the one the caller came with
NewId == <<"t", "1">>

OldId == <<"t", "0">>

\* what "await client.threads.create()" may produce
Raised == [t |-> "raise", s |-> <<>>, items |-> <<>>, keys |-> <<>>]

CreateResults ==
    { Raised,
      Obj(<<"thread_id">>, <<Str(NewId)>>),
      Dict(<<"thread_id">>, <<Str(NewId)>>),
      Dict(<<"id">>, <<Str(NewId)>>),
      Str(NewId),
      Dict(<<"status">>, <<Str(<<"idle">>)>>),
      Str(<<>>) }

\* how the write of the thread file may end
SaveOutcomes == { "written", "open_failed", "write_failed" }

\* how the read of the thread file may end
ReadOutcomes == { "read", "read_failed" }

\* the thread files a run may find: none, an id, an id between blanks, an
\* empty file, a blank file
Files ==
    { None, Str(OldId), Str(<<" ">> \o OldId \o <<"\n">>), Str(<<>>),
      Str(<<"\n">>) }

(***************************************************************************)
(* load_thread_id                                                          *)
(***************************************************************************)
Whitespace == {" ", "\n", "\t", "\r"}

RECURSIVE LStrip(_)
LStrip(cs) ==
    IF cs # <<>> /\ cs[1] \in Whitespace THEN LStrip(Tail(cs)) ELSE cs

RECURSIVE RStrip(_)
RStrip(cs) ==
    IF cs # <<>> /\ cs[Len(cs)] \in Whitespace
    THEN RStrip(SubSeq(cs, 1, Len(cs) - 1)) ELSE cs

\* str.strip()
Strip(cs) == RStrip(LStrip(cs))

\* a load that returns the content as it is
LoadUntrimmed(f, outcome) ==
    IF IsNone(f) THEN None
    ELSE IF outcome = "read_failed" THEN None
    ELSE IF f.s # <<>> THEN Str(f.s) ELSE None

\* load_thread_id(path) when the file is f and its read ends with outcome
load_thread_id(f, outcome) ==
    IF IsNone(f) THEN None
    ELSE IF outcome = "read_failed" THEN None
    ELSE LET value == Strip(f.s)
         IN  IF value # <<>> THEN Str(value) ELSE None

(***************************************************************************)
(* ensure_thread_id(reset=True) and save_thread_id                         *)
(***************************************************************************)
\* the id read out of the create() result, whatever its shape
ExtractThreadId(thread) ==
    LET a == GetAttr(thread, "thread_id")
        b == IF IsNone(a) /\ IsDict(thread)
             THEN Or(Get(thread, "thread_id"), Get(thread, "id")) ELSE a
        c == IF IsNone(b) THEN GetAttr(thread, "id") ELSE b
    IN  IF IsNone(c) /\ IsStr(thread) THEN thread ELSE c

\* what ensure_thread_id returns when it has to create
CreatedThreadId(created) ==
    IF created = Raised THEN None
    ELSE LET thread_id == ExtractThreadId(created)
         IN  IF IsStr(thread_id) /\ Truthy(thread_id) THEN thread_id ELSE None

\* a save that follows a newline convention
SaveWithNewline(old, thread_id, outcome) ==
    CASE outcome = "written"      -> Str(thread_id.s \o <<"\n">>)
      [] outcome = "open_failed"  -> old
      [] outcome = "write_failed" -> Str(<<>>)

\* the thread file after save_thread_id(path, thread_id)
save_thread_id(old, thread_id, outcome) ==
    CASE outcome = "written"      -> thread_id
      [] outcome = "open_failed"  -> old
      [] outcome = "write_failed" -> Str(<<>>)

\* an ensure that opens the file for writing before it looks at the id
FileAfterEnsureTruncating(old, created, outcome) ==
    IF IsNone(CreatedThreadId(created)) THEN Str(<<>>)
    ELSE save_thread_id(old, CreatedThreadId(created), outcome)

\* the thread file after ensure_thread_id(reset=True)
FileAfterEnsure(old, created, outcome) ==
    IF IsNone(CreatedThreadId(created)) THEN old
    ELSE save_thread_id(old, CreatedThreadId(created), outcome)

(***************************************************************************)
(* send_message                                                            *)
(***************************************************************************)
UserEmail == Str(<<"test@example.com">>)

\* a configuration that carries the session id as thread_id only
BuildConfigNoSession(tid) ==
    Dict(<<"configurable">>,
         << IF Truthy(tid)
            THEN Dict(<<"user_email", "thread_id">>, <<UserEmail, tid>>)
            ELSE Dict(<<"user_email">>, <<UserEmail>>) >>)

\* config = {"configurable": {...}}
BuildConfig(tid) ==
    Dict(<<"configurable">>,
         << IF Truthy(tid)
            THEN Dict(<<"user_email", "thread_id", "session_id">>,
                      <<UserEmail, tid, tid>>)
            ELSE Dict(<<"user_email">>, <<UserEmail>>) >>)

\* additional_kwargs of the HumanMessage
BuildKwargs(tid) ==
    IF Truthy(tid) THEN Dict(<<"session_id">>, <<tid>>) ELSE Dict(<<>>, <<>>)

\* one remote call, as the service sees it; "end" is filled in when it ends
StreamCall(att, tid) ==
    [op |-> "stream", attempt |-> att, thread |-> tid,
     config |-> BuildConfig(tid), kwargs |-> BuildKwargs(tid),
     end |-> "open", err |-> <<>>]

CreateCall(created) ==
    [op |-> "create", attempt |-> 0, thread |-> CreatedThreadId(created),
     config |-> None, kwargs |-> None,
     end |-> IF created = Raised THEN "raised" ELSE "returned", err |-> <<>>]

\* "404" in text_exc or "Not Found" in text_exc
IsNotFound(text_exc) ==
    Contains(text_exc, "404") \/ Contains(text_exc, "Not Found")

\* the recovery guard without its test of thread_id
ShouldRecoverAnyThread(tid, text_exc) == IsNotFound(text_exc)

\* the guard of the recovery branch of the except clause
ShouldRecover(tid, text_exc) == Truthy(tid) /\ IsNotFound(text_exc)

VARIABLES
    pc,                 \* "idle", "stream", "create" or "done"
    attempt,            \* _attempt of the innermost send_message frame
    thread_id,          \* thread_id of the innermost frame
    updated_thread_id,  \* updated_thread_id of the outermost frame
    loc,                \* the locals of the innermost frame's stream loop
    evlog,              \* indices (in Events) of the events it has consumed
    result,             \* what the outermost send_message returned
    calls,              \* the remote calls made so far, in order
    returns,            \* send_message frames that have returned
    file,               \* content of the thread file (None: no file)
    mgr,                \* a call of ensure_thread_id made by main: its
                        \* position, arguments, return value and effects
    fn,                 \* a helper applied on its own: arguments and result
    cli                 \* the command-line program: its arguments, the
                        \* locals of main and interactive_chat, what it
                        \* printed, and the content of the audit log

vars == <<pc, attempt, thread_id, updated_thread_id, loc, evlog, result,
          calls, returns, file, mgr, fn, cli>>

\* the variables of send_message
sendvars == <<pc, attempt, thread_id, updated_thread_id, loc, evlog, result,
              calls, returns>>

\* no call of ensure_thread_id by main is under way
MgrIdle ==
    [pc |-> "off", reset |-> FALSE, file0 |-> None, read |-> "",
     thread |-> None, save |-> "", ret |-> None, reread |-> "",
     loaded |-> None, requests |-> 0, writes |-> 0]

\* send_message called on its own: no audit log, no loop around it
CliOff ==
    [mode |-> "off", reset_thread |-> FALSE, stream_mode |-> "values",
     stream_log |-> None, log |-> <<>>, at |-> "off", thread_id |-> None,
     turns |-> 0, out |-> <<>>, debug_stream |-> FALSE, echo |-> <<>>]

\* the debug_stream argument of the frame making attempt att: the retries
\* are called without it and so run with its default
FrameDebugStream(configured, att) == IF att = 0 THEN configured ELSE FALSE

\* the "[stream] event=..." lines printed so far, after the echo of an event
DebugEcho(echo, debug_stream, rec) ==
    IF debug_stream THEN Append(echo, rec) ELSE echo

\* a log path whose open() raises
UnwritablePath == Str(<<"/", "stream.log">>)

\* the stream_log argument of the frame making attempt att: the retries are
\* called without it and so run with its default
FrameStreamLog(configured, att) == IF att = 0 THEN configured ELSE None

\* the audit log after _append_stream_log(log_path, event, data)
_append_stream_log(log, log_path, rec) ==
    IF ~Truthy(log_path) THEN log
    ELSE IF log_path = UnwritablePath THEN log
    ELSE Append(log, rec)

\* no helper is being applied on its own
FnIdle == [name |-> "", args |-> <<>>, out |-> None, done |-> FALSE]

\* the token buffer taking precedence over the captured answer
FinalTextTokensFirst(st) ==
    IF st.assembled_text # <<>> THEN JoinWith(st.assembled_text, <<>>)
    ELSE st.last_text

\* the text returned when the stream closes normally
FinalText(st) ==
    IF st.last_text = <<>> /\ st.assembled_text # <<>>
    THEN JoinWith(st.assembled_text, <<>>)
    ELSE st.last_text

\* the normal return reporting the thread in use as the updated one
NormalResultWithThread(st) ==
    [text |-> FinalText(st), updated |-> thread_id,
     metadata |-> st.last_metadata, printed |-> st.printed_any]

\* return last_text, updated_thread_id, last_metadata, printed_any
NormalResult(st) ==
    [text |-> FinalText(st), updated |-> None,
     metadata |-> st.last_metadata, printed |-> st.printed_any]

\* the error return handing back what the loop had collected
ErrorResultPartial ==
    [text |-> loc.last_text, updated |-> None,
     metadata |-> loc.last_metadata, printed |-> loc.printed_any]

\* return "", None, None, False
ErrorResult ==
    [text |-> <<>>, updated |-> None, metadata |-> None, printed |-> FALSE]

\* the retrying frame dropping the new thread id from its return
ReturnFromRetryNoId(res) == [res EXCEPT !.updated = None]

\* the return of the frame that retried with a new thread (attempt 0)
ReturnFromRetry(res) == [res EXCEPT !.updated = updated_thread_id]

\* the return of the frame that fell back to a threadless run (attempt 1)
ReturnFromThreadless(res) == [res EXCEPT !.updated = None]

\* the innermost frame's result, handed up through the frames awaiting it
Unwind(att, res) ==
    IF att = 0 THEN res
    ELSE IF att = 1 THEN ReturnFromRetry(res)
    ELSE ReturnFromRetry(ReturnFromThreadless(res))

EndLast(cs, how, text_exc) ==
    [cs EXCEPT ![Len(cs)] = [@ EXCEPT !.end = how, !.err = text_exc]]

Init ==
    /\ pc = "idle"
    /\ attempt = 0
    /\ thread_id = None
    /\ updated_thread_id = None
    /\ loc = FreshLocals
    /\ evlog = <<>>
    /\ result = ErrorResult
    /\ calls = <<>>
    /\ returns = 0
    /\ file \in {None, Str(OldId)}
    /\ mgr = MgrIdle
    /\ cli = CliOff
    /\ fn = FnIdle

\* a send begun while the stream of the previous one is still open
SendMessageUnawaited(tid) ==
    /\ pc \in {"idle", "stream"}
    /\ pc' = "stream"
    /\ attempt' = 0
    /\ thread_id' = tid
    /\ loc' = FreshLocals
    /\ evlog' = <<>>
    /\ calls' = Append(calls, StreamCall(0, tid))
    /\ UNCHANGED <<updated_thread_id, result, returns, file, mgr, fn, cli>>

\* the top-level call send_message(..., thread_id=tid) up to the first await
SendMessage(tid) ==
    /\ pc = "idle"
    /\ pc' = "stream"
    /\ attempt' = 0
    /\ thread_id' = tid
    /\ loc' = FreshLocals
    /\ evlog' = <<>>
    /\ calls' = Append(calls, StreamCall(0, tid))
    /\ UNCHANGED <<updated_thread_id, result, returns, file, mgr, fn, cli>>

\* a loop body in which the debug echo counts as content shown to the user
StreamEventEchoCounts(i) ==
    /\ pc = "stream"
    /\ Len(evlog) < MaxEvents
    /\ loc' = [ProcessEvent(loc, Events[i].evt, Events[i].data) EXCEPT
                 !.printed_any =
                     @ \/ FrameDebugStream(cli.debug_stream, attempt)]
    /\ evlog' = Append(evlog, i)
    /\ cli' = [cli EXCEPT
                 !.echo = DebugEcho(cli.echo,
                                    FrameDebugStream(cli.debug_stream, attempt),
                                    i),
                 !.log =
                 _append_stream_log(cli.log,
                                    FrameStreamLog(cli.stream_log, attempt), i)]
    /\ UNCHANGED <<pc, attempt, thread_id, updated_thread_id, result, calls,
                   returns, file, mgr, fn>>

\* the stream yields Events[i]: one pass through the loop body
StreamEvent(i) ==
    /\ pc = "stream"
    /\ Len(evlog) < MaxEvents
    /\ loc' = ProcessEvent(loc, Events[i].evt, Events[i].data)
    /\ evlog' = Append(evlog, i)
    /\ cli' = [cli EXCEPT
                 !.echo = DebugEcho(cli.echo,
                                    FrameDebugStream(cli.debug_stream, attempt),
                                    i),
                 !.log =
                 _append_stream_log(cli.log,
                                    FrameStreamLog(cli.stream_log, attempt), i)]
    /\ UNCHANGED <<pc, attempt, thread_id, updated_thread_id, result, calls,
                   returns, file, mgr, fn>>

\* the stream closes: the tail of the try block, and the awaiting frames return
StreamClose ==
    /\ pc = "stream"
    /\ pc' = "done"
    /\ loc' = [loc EXCEPT !.last_text = FinalText(loc)]
    /\ result' = Unwind(attempt, NormalResult(loc))
    /\ calls' = EndLast(calls, "closed", <<>>)
    /\ returns' = attempt + 1
    /\ UNCHANGED <<attempt, thread_id, updated_thread_id, evlog, file, mgr,
                   fn, cli>>

\* the stream raises exc with str(exc) = text_exc: the except clause, up to
\* its next await (threads.create, or the stream of the threadless run)
StreamError(text_exc) ==
    /\ pc = "stream"
    /\ IF ShouldRecover(thread_id, text_exc)
       THEN IF attempt = 0
            THEN /\ pc' = "create"
                 /\ calls' = EndLast(calls, "raised", text_exc)
                 /\ UNCHANGED <<attempt, thread_id, loc, evlog, result,
                                returns>>
            ELSE /\ pc' = "stream"
                 /\ attempt' = 2
                 /\ thread_id' = None
                 /\ loc' = FreshLocals
                 /\ evlog' = <<>>
                 /\ calls' = Append(EndLast(calls, "raised", text_exc),
                                    StreamCall(2, None))
                 /\ UNCHANGED <<result, returns>>
       ELSE /\ pc' = "done"
            /\ result' = Unwind(attempt, ErrorResult)
            /\ calls' = EndLast(calls, "raised", text_exc)
            /\ returns' = attempt + 1
            /\ UNCHANGED <<attempt, thread_id, loc, evlog>>
    /\ UNCHANGED <<updated_thread_id, file, mgr, fn, cli>>

\* the retry made with the thread id that was just reported missing
CreateAndRetryStaleThread(created, outcome) ==
    /\ pc = "create"
    /\ pc' = "stream"
    /\ file' = FileAfterEnsure(file, created, outcome)
    /\ updated_thread_id' = CreatedThreadId(created)
    /\ attempt' = 1
    /\ loc' = FreshLocals
    /\ evlog' = <<>>
    /\ calls' = calls \o <<CreateCall(created), StreamCall(1, thread_id)>>
    /\ UNCHANGED <<thread_id, result, returns, mgr, fn, cli>>

\* a recovery in which a failed write of the thread file ends the send
CreateAndRetryWriteFatal(created, outcome) ==
    /\ pc = "create"
    /\ file' = FileAfterEnsure(file, created, outcome)
    /\ IF outcome = "written" \/ IsNone(CreatedThreadId(created))
       THEN /\ pc' = "stream"
            /\ updated_thread_id' = CreatedThreadId(created)
            /\ attempt' = 1
            /\ thread_id' = CreatedThreadId(created)
            /\ loc' = FreshLocals
            /\ evlog' = <<>>
            /\ calls' = calls \o <<CreateCall(created),
                                    StreamCall(1, CreatedThreadId(created))>>
            /\ UNCHANGED <<result, returns>>
       ELSE /\ pc' = "done"
            /\ result' = ErrorResult
            /\ calls' = Append(calls, CreateCall(created))
            /\ returns' = 1
            /\ UNCHANGED <<updated_thread_id, attempt, thread_id, loc, evlog>>
    /\ UNCHANGED <<mgr, fn, cli>>

\* threads.create() answers: the rest of ensure_thread_id(reset=True), then
\* the retry send_message(..., thread_id=new_thread_id, _attempt=1)
CreateAndRetry(created, outcome) ==
    /\ pc = "create"
    /\ pc' = "stream"
    /\ file' = FileAfterEnsure(file, created, outcome)
    /\ updated_thread_id' = CreatedThreadId(created)
    /\ attempt' = 1
    /\ thread_id' = CreatedThreadId(created)
    /\ loc' = FreshLocals
    /\ evlog' = <<>>
    /\ calls' = calls \o <<CreateCall(created),
                            StreamCall(1, CreatedThreadId(created))>>
    /\ UNCHANGED <<result, returns, mgr, fn, cli>>

Next ==
    \/ \E tid \in {None, Str(OldId)} : SendMessage(tid)
    \/ \E i \in 1..Len(Events) : StreamEvent(i)
    \/ StreamClose
    \/ \E e \in Errors : StreamError(e)
    \/ \E c \in CreateResults, o \in SaveOutcomes : CreateAndRetry(c, o)

Spec == Init /\ [][Next]_vars

(***************************************************************************)
(* One send with an audit log configured (--stream-log), started with the  *)
(* thread of the thread file                                               *)
(***************************************************************************)
\* the path given with --stream-log
LogPath == Str(<<"stream.log">>)

\* the events of the audited runs: an answer with metadata, a token delta
AuditEvents == {4, 5}

InitAudit ==
    /\ pc = "idle"
    /\ attempt = 0
    /\ thread_id = None
    /\ updated_thread_id = None
    /\ loc = FreshLocals
    /\ evlog = <<>>
    /\ result = ErrorResult
    /\ calls = <<>>
    /\ returns = 0
    /\ file = Str(OldId)
    /\ mgr = MgrIdle
    /\ fn = FnIdle
    /\ cli = [CliOff EXCEPT !.stream_log = LogPath]

NextAudit ==
    \/ SendMessage(Str(OldId))
    \/ \E i \in AuditEvents : StreamEvent(i)
    \/ StreamClose
    \/ \E e \in Errors : StreamError(e)
    \/ \E c \in CreateResults, o \in SaveOutcomes : CreateAndRetry(c, o)

SpecAudit == InitAudit /\ [][NextAudit]_vars

(***************************************************************************)
(* ensure_thread_id as main and interactive_chat call it before any send,  *)
(* followed by the load_thread_id of the next call                         *)
(***************************************************************************)
InitSession ==
    /\ pc = "idle"
    /\ attempt = 0
    /\ thread_id = None
    /\ updated_thread_id = None
    /\ loc = FreshLocals
    /\ evlog = <<>>
    /\ result = ErrorResult
    /\ calls = <<>>
    /\ returns = 0
    /\ fn = FnIdle
    /\ cli = CliOff
    /\ file \in Files
    /\ \E reset \in BOOLEAN :
           mgr = [MgrIdle EXCEPT !.pc = "start", !.reset = reset,
                                 !.file0 = file]

\* how the read made by ensure_thread_id(reset) of file f ended
ReadDone(reset, f, outcome) ==
    IF reset THEN "" ELSE IF IsNone(f) THEN "absent" ELSE outcome

\* an ensure that writes the id it found back to the file
EnsureExistingRewrites(outcome) ==
    /\ mgr.pc = "start"
    /\ ~mgr.reset
    /\ Truthy(load_thread_id(file, outcome))
    /\ mgr' = [mgr EXCEPT !.pc = "returned",
                          !.read = ReadDone(FALSE, file, outcome),
                          !.writes = @ + 1,
                          !.ret = load_thread_id(file, outcome)]
    /\ file' = load_thread_id(file, outcome)
    /\ UNCHANGED <<sendvars, cli, fn>>

\* ensure_thread_id(reset=False) finds an id in the file and returns it
EnsureExisting(outcome) ==
    /\ mgr.pc = "start"
    /\ ~mgr.reset
    /\ Truthy(load_thread_id(file, outcome))
    /\ mgr' = [mgr EXCEPT !.pc = "returned",
                          !.read = ReadDone(FALSE, file, outcome),
                          !.ret = load_thread_id(file, outcome)]
    /\ UNCHANGED <<sendvars, cli, file, fn>>

\* ensure_thread_id, reset or finding no id, up to "await threads.create()"
EnsureRequest(outcome) ==
    /\ mgr.pc = "start"
    /\ mgr.reset \/ ~Truthy(load_thread_id(file, outcome))
    /\ mgr' = [mgr EXCEPT !.pc = "creating",
                          !.read = ReadDone(mgr.reset, file, outcome),
                          !.requests = @ + 1]
    /\ UNCHANGED <<sendvars, cli, file, fn>>

\* threads.create() answers: the rest of ensure_thread_id
EnsureAnswered(created, outcome) ==
    /\ mgr.pc = "creating"
    /\ mgr' = [mgr EXCEPT
                  !.pc = "returned",
                  !.thread = created,
                  !.save = IF IsNone(CreatedThreadId(created)) THEN ""
                           ELSE outcome,
                  !.writes = IF IsNone(CreatedThreadId(created)) THEN @
                             ELSE @ + 1,
                  !.ret = CreatedThreadId(created)]
    /\ file' = FileAfterEnsure(file, created, outcome)
    /\ UNCHANGED <<sendvars, cli, fn>>

\* where in save_thread_id an interruption of the process may fall
InterruptPoints == { "before_open", "after_open", "after_write" }

\* the thread file when the process is interrupted in save_thread_id: open(
\* path, "w") has truncated the file before any of the id is written to it
FileWhenInterrupted(old, new_id, point) ==
    CASE point = "before_open" -> old
      [] point = "after_open"  -> Str(<<>>)
      [] point = "after_write" -> new_id

\* threads.create() gives an id and the process is interrupted while
\* save_thread_id runs: KeyboardInterrupt passes every "except Exception"
\* and ends the run in main
EnsureInterrupted(created, point) ==
    /\ mgr.pc = "creating"
    /\ ~IsNone(CreatedThreadId(created))
    /\ mgr' = [mgr EXCEPT !.pc = "interrupted", !.thread = created,
                          !.save = point, !.writes = @ + 1]
    /\ file' = FileWhenInterrupted(file, CreatedThreadId(created), point)
    /\ UNCHANGED <<sendvars, cli, fn>>

\* the load_thread_id made by the next ensure_thread_id(reset=False)
LoadAfter(outcome) ==
    /\ mgr.pc = "returned"
    /\ mgr' = [mgr EXCEPT !.pc = "loaded",
                          !.reread = ReadDone(FALSE, file, outcome),
                          !.loaded = load_thread_id(file, outcome)]
    /\ UNCHANGED <<sendvars, cli, file, fn>>

NextSession ==
    \/ \E o \in ReadOutcomes : EnsureExisting(o)
    \/ \E o \in ReadOutcomes : EnsureRequest(o)
    \/ \E c \in CreateResults, o \in SaveOutcomes : EnsureAnswered(c, o)
    \/ \E c \in CreateResults, p \in InterruptPoints : EnsureInterrupted(c, p)
    \/ \E o \in ReadOutcomes : LoadAfter(o)

SpecSession == InitSession /\ [][NextSession]_vars

(***************************************************************************)
(* load_thread_id applied on its own, up to MaxLoads times in a row, to    *)
(* every file of LoadFiles                                                 *)
(***************************************************************************)
MaxLoads == 2

\* thread files with blanks before, after and inside the content
LoadFiles ==
    Files \cup
    { Str(<<" ">>), Str(<<"\r", "\n">>), Str(OldId \o <<"\n">>),
      Str(<<"\t">> \o OldId), Str(OldId \o <<"\r", "\n">>),
      Str(<<"\n", "\n", " ">> \o OldId), Str(<<"t", " ", "0">>),
      Str(<<" ", "t", " ", "0", " ">>), Str(NewId), Str(NewId \o <<"\n">>),
      Str(<<" ">> \o NewId) }

InitLoad ==
    /\ pc = "idle"
    /\ attempt = 0
    /\ thread_id = None
    /\ updated_thread_id = None
    /\ loc = FreshLocals
    /\ evlog = <<>>
    /\ result = ErrorResult
    /\ calls = <<>>
    /\ returns = 0
    /\ mgr = MgrIdle
    /\ cli = CliOff
    /\ file \in LoadFiles
    /\ fn = [name |-> "load_thread_id", args |-> <<>>, out |-> <<>>,
             done |-> FALSE]

\* a load that removes the file it has read
ApplyLoadConsuming(outcome) ==
    /\ fn.name = "load_thread_id"
    /\ Len(fn.out) < MaxLoads
    /\ fn' = [fn EXCEPT
                 !.args = Append(@, ReadDone(FALSE, file, outcome)),
                 !.out = Append(@, load_thread_id(file, outcome)),
                 !.done = TRUE]
    /\ file' = IF outcome = "read" THEN None ELSE file
    /\ UNCHANGED <<sendvars, cli, mgr>>

\* one call load_thread_id(path) whose read ends with outcome; args collects
\* how the reads ended and out what the calls returned
ApplyLoad(outcome) ==
    /\ fn.name = "load_thread_id"
    /\ Len(fn.out) < MaxLoads
    /\ fn' = [fn EXCEPT
                 !.args = Append(@, ReadDone(FALSE, file, outcome)),
                 !.out = Append(@, load_thread_id(file, outcome)),
                 !.done = TRUE]
    /\ UNCHANGED <<sendvars, cli, file, mgr>>

NextLoad == \E o \in ReadOutcomes : ApplyLoad(o)

SpecLoad == InitLoad /\ [][NextLoad]_vars

(***************************************************************************)
(* main: the single-message mode and the interactive loop around           *)
(* ensure_thread_id and send_message                                       *)
(***************************************************************************)
\* the modes of main/_run: "oneshot" when a message is given without
\* --interactive, "interactive" otherwise
Modes == {"oneshot", "interactive"}

\* the --stream-mode values that the rendering tells apart
StreamModes == {"values", "updates"}

\* the stream parts of the sessions: an answer with metadata, and a nested
\* update whose text is surfaced but not captured
ChatEvents == {4, 9}

ChatErrors == { <<"HTTP", "404">>, <<"500", "Server Error">> }

ChatCreateResults == { Raised, Obj(<<"thread_id">>, <<Str(NewId)>>) }

\* a save of the thread file that succeeds, and one that fails
ChatSaveOutcomes == { "written", "open_failed" }

\* the text printed in place of an answer
NoResponse == <<"<no response>">>

Line(kind, text) == [kind |-> kind, text |-> text]

\* isinstance(metadata, dict) and isinstance(metadata.get("irbot"), (dict, list))
ShowsIrbot(metadata) ==
    IsDict(metadata) /\ Get(metadata, "irbot").t \in {"dict", "list"}

\* what interactive_chat prints once send_message has returned res
RenderChat(res, stream_mode) ==
    (IF Truthy(res.updated)
     THEN <<Line("switched", res.updated.s)>> ELSE <<>>)
    \o (IF res.text # <<>>
        THEN <<Line("agent", res.text)>>
             \o (IF ShowsIrbot(res.metadata)
                 THEN <<Line("metadata", <<>>)>> ELSE <<>>)
        ELSE IF stream_mode = "updates" /\ res.printed THEN <<>>
        ELSE <<Line("agent", NoResponse)>>)

\* what main prints in single-message mode once send_message has returned
RenderOneShot(res) ==
    IF res.text # <<>> THEN <<Line("agent", res.text)>> ELSE <<>>

\* the call ensure_thread_id(client, thread_file, reset) at its start
EnsureCall(reset) ==
    [MgrIdle EXCEPT !.pc = "start", !.reset = reset, !.file0 = file]

InitChat ==
    /\ pc = "idle"
    /\ attempt = 0
    /\ thread_id = None
    /\ updated_thread_id = None
    /\ loc = FreshLocals
    /\ evlog = <<>>
    /\ result = ErrorResult
    /\ calls = <<>>
    /\ returns = 0
    /\ file \in {None, Str(OldId)}
    /\ mgr = MgrIdle
    /\ fn = FnIdle
    /\ \E mode \in Modes, reset \in BOOLEAN, stream_mode \in StreamModes :
          cli = [CliOff EXCEPT !.mode = mode, !.reset_thread = reset,
                               !.stream_mode = stream_mode, !.at = "main"]

\* single-message mode: thread_id = await ensure_thread_id(reset=args.reset_thread)
MainOneShot ==
    /\ cli.mode = "oneshot"
    /\ cli.at = "main"
    /\ mgr' = EnsureCall(cli.reset_thread)
    /\ cli' = [cli EXCEPT !.at = "ensure"]
    /\ UNCHANGED <<sendvars, file, fn>>

\* interactive mode with --reset-thread: _ = await ensure_thread_id(reset=True)
MainForceNew ==
    /\ cli.mode = "interactive"
    /\ cli.at = "main"
    /\ cli.reset_thread
    /\ mgr' = EnsureCall(TRUE)
    /\ cli' = [cli EXCEPT !.at = "forced"]
    /\ UNCHANGED <<sendvars, file, fn>>

\* the forced creation returns; its result is dropped
ForcedReturned ==
    /\ cli.at = "forced"
    /\ mgr.pc = "returned"
    /\ mgr' = MgrIdle
    /\ cli' = [cli EXCEPT !.at = "chat"]
    /\ UNCHANGED <<sendvars, file, fn>>

\* interactive_chat: thread_id = await ensure_thread_id(reset=False)
ChatEnsure ==
    /\ cli.mode = "interactive"
    /\ \/ cli.at = "main" /\ ~cli.reset_thread
       \/ cli.at = "chat"
    /\ mgr' = EnsureCall(FALSE)
    /\ cli' = [cli EXCEPT !.at = "ensure"]
    /\ UNCHANGED <<sendvars, file, fn>>

\* the awaited ensure_thread_id returns: its value becomes the thread id
\* held by main or by the loop
EnsureReturned ==
    /\ cli.at = "ensure"
    /\ mgr.pc = "returned"
    /\ mgr' = MgrIdle
    /\ cli' = [cli EXCEPT !.at = "prompt", !.thread_id = mgr.ret,
                          !.out = <<Line("thread",
                                         IF Truthy(mgr.ret) THEN mgr.ret.s
                                         ELSE <<>>)>>]
    /\ UNCHANGED <<sendvars, file, fn>>

\* the loop reads /reset or /new
ChatReset ==
    /\ cli.mode = "interactive"
    /\ cli.at = "prompt"
    /\ pc = "idle"
    /\ cli.turns < MaxTurns
    /\ mgr' = EnsureCall(TRUE)
    /\ cli' = [cli EXCEPT !.at = "ensure", !.turns = @ + 1]
    /\ UNCHANGED <<sendvars, file, fn>>

\* the loop reads /exit, or the input ends
ChatExit ==
    /\ cli.mode = "interactive"
    /\ cli.at = "prompt"
    /\ pc = "idle"
    /\ cli' = [cli EXCEPT !.at = "exit", !.out = <<Line("bye", <<>>)>>]
    /\ UNCHANGED <<sendvars, file, mgr, fn>>

\* the loop reads a message, or main has its message: the await of
\* send_message(..., thread_id=thread_id) begins
ChatSend ==
    /\ cli.at = "prompt"
    /\ cli.turns < (IF cli.mode = "oneshot" THEN 1 ELSE MaxTurns)
    /\ SendMessage(cli.thread_id)

\* the frame of send_message is gone
SendReturned ==
    /\ pc' = "idle"
    /\ attempt' = 0
    /\ thread_id' = None
    /\ updated_thread_id' = None
    /\ loc' = FreshLocals
    /\ evlog' = <<>>
    /\ result' = ErrorResult
    /\ returns' = 0
    /\ UNCHANGED calls

\* a loop that renders the answer and keeps the thread id it had
ChatRenderKeepsThread ==
    /\ cli.mode = "interactive"
    /\ cli.at = "prompt"
    /\ pc = "done"
    /\ cli' = [cli EXCEPT !.out = RenderChat(result, cli.stream_mode),
                          !.turns = @ + 1]
    /\ SendReturned
    /\ UNCHANGED <<file, mgr, fn>>

\* interactive_chat after the await of send_message: the switch of thread
\* and the rendering of the answer, then the next pass of the loop
ChatRender ==
    /\ cli.mode = "interactive"
    /\ cli.at = "prompt"
    /\ pc = "done"
    /\ cli' = [cli EXCEPT
                 !.thread_id = IF Truthy(result.updated) THEN result.updated
                               ELSE @,
                 !.out = RenderChat(result, cli.stream_mode),
                 !.turns = @ + 1]
    /\ SendReturned
    /\ UNCHANGED <<file, mgr, fn>>

\* main in single-message mode after the await of send_message
MainRender ==
    /\ cli.mode = "oneshot"
    /\ cli.at = "prompt"
    /\ pc = "done"
    /\ cli' = [cli EXCEPT !.at = "exit", !.out = RenderOneShot(result),
                          !.turns = @ + 1]
    /\ SendReturned
    /\ UNCHANGED <<file, mgr, fn>>

NextChat ==
    \/ MainOneShot
    \/ MainForceNew
    \/ ForcedReturned
    \/ ChatEnsure
    \/ \E o \in ReadOutcomes : EnsureExisting(o)
    \/ \E o \in ReadOutcomes : EnsureRequest(o)
    \/ \E c \in ChatCreateResults, o \in ChatSaveOutcomes :
          EnsureAnswered(c, o)
    \/ EnsureReturned
    \/ ChatReset
    \/ ChatExit
    \/ ChatSend
    \/ \E i \in ChatEvents : StreamEvent(i)
    \/ StreamClose
    \/ \E e \in ChatErrors : StreamError(e)
    \/ \E c \in ChatCreateResults, o \in ChatSaveOutcomes :
          CreateAndRetry(c, o)
    \/ ChatRender
    \/ MainRender

SpecChat == InitChat /\ [][NextChat]_vars

(***************************************************************************)
(* One send made twice against the same remote behaviour: first with the   *)
(* diagnostics off, then with --debug-stream and --stream-log as chosen    *)
(***************************************************************************)
\* what the remote does at each of the three attempts of a send: the events
\* it streams and how the stream ends (<<>>: it closes; else the error),
\* and what threads.create() answers
Scripts ==
    { [tid |-> t, events |-> <<a, b, c>>, ends |-> <<x, y, z>>,
       created |-> cr] :
        t \in {None, Str(OldId)},
        a \in {<<>>, <<4>>, <<5>>}, b \in {<<>>, <<4>>}, c \in {<<>>, <<5>>},
        x \in {<<>>} \cup ChatErrors, y \in {<<>>} \cup ChatErrors,
        z \in {<<>>} \cup ChatErrors,
        cr \in ChatCreateResults }

\* the log paths of the second send
LogPaths == { None, LogPath, UnwritablePath }

InitDiag ==
    /\ pc = "idle"
    /\ attempt = 0
    /\ thread_id = None
    /\ updated_thread_id = None
    /\ loc = FreshLocals
    /\ evlog = <<>>
    /\ result = ErrorResult
    /\ calls = <<>>
    /\ returns = 0
    /\ mgr = MgrIdle
    /\ cli = CliOff
    /\ \E script \in Scripts :
          /\ file = script.tid
          /\ fn = [name |-> "script", args |-> script,
                   out  |-> [result |-> ErrorResult, calls |-> <<>>],
                   done |-> FALSE]

\* the events the remote streams at the current attempt
ScriptEvents == fn.args.events[attempt + 1]

\* how the stream of the current attempt ends
ScriptEnd == fn.args.ends[attempt + 1]

DiagSend ==
    /\ fn.name = "script"
    /\ calls = <<>>
    /\ SendMessage(fn.args.tid)

DiagEvent ==
    /\ Len(evlog) < Len(ScriptEvents)
    /\ StreamEvent(ScriptEvents[Len(evlog) + 1])

DiagClose ==
    /\ Len(evlog) = Len(ScriptEvents)
    /\ ScriptEnd = <<>>
    /\ StreamClose

DiagError ==
    /\ Len(evlog) = Len(ScriptEvents)
    /\ ScriptEnd # <<>>
    /\ StreamError(ScriptEnd)

DiagCreate == CreateAndRetry(fn.args.created, "written")

\* the first send has returned: what it returned and the calls it made are
\* kept, and the second send starts from the same thread file with the
\* diagnostics given
SecondSend(debug_stream, stream_log) ==
    /\ fn.name = "script"
    /\ ~fn.done
    /\ pc = "done"
    /\ fn' = [fn EXCEPT !.out = [result |-> result, calls |-> calls],
                        !.done = TRUE]
    /\ cli' = [cli EXCEPT !.debug_stream = debug_stream,
                          !.stream_log = stream_log]
    /\ file' = fn.args.tid
    /\ pc' = "idle"
    /\ attempt' = 0
    /\ thread_id' = None
    /\ updated_thread_id' = None
    /\ loc' = FreshLocals
    /\ evlog' = <<>>
    /\ result' = ErrorResult
    /\ calls' = <<>>
    /\ returns' = 0
    /\ UNCHANGED mgr

NextDiag ==
    \/ DiagSend
    \/ DiagEvent
    \/ DiagClose
    \/ DiagError
    \/ DiagCreate
    \/ \E d \in BOOLEAN, l \in LogPaths : SecondSend(d, l)

SpecDiag == InitDiag /\ [][NextDiag]_vars

(***************************************************************************)
(* The interactive loop when every write of the thread file succeeds and   *)
(* successive creations return different ids                               *)
(***************************************************************************)
\* the id of a second creation
OtherId == <<"t", "2">>

SavedCreateResults ==
    { Raised, Obj(<<"thread_id">>, <<Str(NewId)>>),
      Obj(<<"thread_id">>, <<Str(OtherId)>>) }

\* threads.create() does not return the id the thread file holds
IsNewThread(created) ==
    IsNone(CreatedThreadId(created)) \/ CreatedThreadId(created) # file

InitSaved ==
    /\ pc = "idle"
    /\ attempt = 0
    /\ thread_id = None
    /\ updated_thread_id = None
    /\ loc = FreshLocals
    /\ evlog = <<>>
    /\ result = ErrorResult
    /\ calls = <<>>
    /\ returns = 0
    /\ file \in {None, Str(OldId)}
    /\ mgr = MgrIdle
    /\ fn = FnIdle
    /\ \E reset \in BOOLEAN :
          cli = [CliOff EXCEPT !.mode = "interactive", !.reset_thread = reset,
                               !.at = "main"]

NextSaved ==
    \/ MainForceNew
    \/ ForcedReturned
    \/ ChatEnsure
    \/ \E o \in ReadOutcomes : EnsureExisting(o)
    \/ \E o \in ReadOutcomes : EnsureRequest(o)
    \/ \E c \in SavedCreateResults :
          IsNewThread(c) /\ EnsureAnswered(c, "written")
    \/ EnsureReturned
    \/ ChatReset
    \/ ChatExit
    \/ ChatSend
    \/ StreamEvent(4)
    \/ StreamClose
    \/ \E e \in ChatErrors : StreamError(e)
    \/ \E c \in SavedCreateResults :
          IsNewThread(c) /\ CreateAndRetry(c, "written")
    \/ ChatRender

SpecSaved == InitSaved /\ [][NextSaved]_vars

(***************************************************************************)
(* The body of the stream loop applied on its own to events of every       *)
(* payload shape, after the locals were filled by an earlier event         *)
(***************************************************************************)
\* chunk.event
ShapeEvents ==
    { <<"values">>, <<"updates">>, <<"events", "on_chat_model_stream">>,
      <<"messages">>, <<>> }

\* chunk.data: null, scalars, a list, mappings and objects without the
\* fields the rules look for or with unusable ones, and two messages
ShapeData ==
    { None,
      Int(<<"7">>),
      Str(<<"x">>),
      List(<<Int(<<"7">>), None, Dict(<<"run_id">>, <<Str(<<"r">>)>>)>>),
      Dict(<<"run_id">>, <<Str(<<"r">>)>>),
      Dict(<<"messages">>, <<Str(<<"oops">>)>>),
      Dict(<<"messages">>, <<List(<<None, Int(<<"7">>)>>)>>),
      Dict(<<"a">>, <<Dict(<<"b">>, <<List(<<Int(<<"1">>),
                                            Dict(<<"c">>, <<None>>)>>)>>)>>),
      Obj(<<"id">>, <<Str(<<"i">>)>>),
      Obj(<<"content">>, <<None>>),
      MsgMd("ai", <<"A">>, PlainMd),
      Obj(<<"type", "content">>, <<Str(<<"ai">>), Str(<<"w">>)>>) }

\* the events that may have filled the locals before: none, a values event
\* with an answer and irbot metadata, a token delta
ShapePriors == {0, 4, 5}

InitShapes ==
    /\ pc = "idle"
    /\ attempt = 0
    /\ thread_id = None
    /\ updated_thread_id = None
    /\ loc = FreshLocals
    /\ evlog = <<>>
    /\ result = ErrorResult
    /\ calls = <<>>
    /\ returns = 0
    /\ file = None
    /\ mgr = MgrIdle
    /\ cli = CliOff
    /\ \E prior \in ShapePriors, evt \in ShapeEvents, data \in ShapeData :
           fn = [name |-> "loop_body",
                 args |-> <<Int(<<prior>>), Str(evt), data>>,
                 out |-> <<>>, done |-> FALSE]

\* the locals after the earlier event, then one pass through the loop body
\* for the event (args[2], args[3]); out is <<locals before, locals after>>
ApplyLoopBody ==
    /\ fn.name = "loop_body"
    /\ ~fn.done
    /\ LET prior  == fn.args[1].s[1]
           before == IF prior = 0 THEN FreshLocals
                     ELSE ProcessEvent(FreshLocals, Events[prior].evt,
                                       Events[prior].data)
       IN  fn' = [fn EXCEPT
                    !.out = <<before,
                              ProcessEvent(before, fn.args[2].s, fn.args[3])>>,
                    !.done = TRUE]
    /\ UNCHANGED <<sendvars, cli, file, mgr>>

NextShapes == ApplyLoopBody

SpecShapes == InitShapes /\ [][NextShapes]_vars

(***************************************************************************)
(* _prefer_irbot_metadata applied on its own to every pair of MdPool       *)
(***************************************************************************)
InitPrefer ==
    /\ pc = "idle"
    /\ attempt = 0
    /\ thread_id = None
    /\ updated_thread_id = None
    /\ loc = FreshLocals
    /\ evlog = <<>>
    /\ result = ErrorResult
    /\ calls = <<>>
    /\ returns = 0
    /\ file = None
    /\ mgr = MgrIdle
    /\ cli = CliOff
    /\ \E current \in MdPool, new_md \in MdPool :
           fn = [name |-> "_prefer_irbot_metadata",
                 args |-> <<current, new_md>>, out |-> None, done |-> FALSE]

ApplyPrefer ==
    /\ fn.name = "_prefer_irbot_metadata"
    /\ ~fn.done
    /\ fn' = [fn EXCEPT !.out = _prefer_irbot_metadata(fn.args[1], fn.args[2]),
                        !.done = TRUE]
    /\ UNCHANGED <<sendvars, cli, file, mgr>>

NextPrefer == ApplyPrefer

SpecPrefer == InitPrefer /\ [][NextPrefer]_vars

(***************************************************************************)
(* The backend-proxy agent (agents/ace_dmo_irbot/irbot_agent.py)           *)
(***************************************************************************)
\* invocations of the agent on one thread
MaxInvocations == 2

HumanMessage(content) ==
    Obj(<<"type", "content">>, <<Str(<<"human">>), content>>)

AIMessage(content) ==
    Obj(<<"type", "content">>, <<Str(<<"ai">>), Str(content)>>)

\* AIMessage(content=..., response_metadata={"irbot": backend})
AIMessageIrbot(content, backend) ==
    Obj(<<"type", "content", "response_metadata">>,
        <<Str(<<"ai">>), Str(content), Dict(<<"irbot">>, <<backend>>)>>)

\* an exception whose str() is detail
Exc(detail) == [Raised EXCEPT !.s = detail]

IsRaised(v) == v.t = "raise"

\* the tests of the loop that looks for the last human message
IsHumanInput(m) ==
    \/ GetAttr(m, "type") = Str(<<"human">>)
    \/ /\ IsDict(m)
       /\ \/ Get(m, "type") = Str(<<"human">>) /\ Truthy(Get(m, "content"))
          \/ /\ Get(m, "role") \in {Str(<<"user">>), Str(<<"human">>)}
             /\ Truthy(Get(m, "content"))

RECURSIVE LastUser(_)
\* last_user: the last message of the list that passes the tests, or None
LastUser(ms) ==
    IF ms = <<>> THEN None
    ELSE IF IsHumanInput(ms[Len(ms)]) THEN ms[Len(ms)]
    ELSE LastUser(SubSeq(ms, 1, Len(ms) - 1))

\* _get(container, key, default)
_get(container, key, default) ==
    IF IsDict(container)
    THEN IF HasKey(container, key) THEN Lookup(container, key) ELSE default
    ELSE IF HasAttr(container, key) THEN GetAttr(container, key)
    ELSE default

\* session_id as resolved from the run configuration
SessionFromConfig(config) ==
    LET cfg      == Or(config, Dict(<<>>, <<>>))
        cfg_conf == Or(_get(cfg, "configurable", Dict(<<>>, <<>>)),
                       Dict(<<>>, <<>>))
    IN  Or(_get(cfg, "thread_id", None),
        Or(_get(cfg_conf, "thread_id", None),
        Or(_get(cfg_conf, "session_id", None),
        Or(_get(cfg, "thread", None),
        Or(_get(cfg_conf, "thread", None),
           Str(<<"unknown">>))))))

\* session_id after the look into the message's additional_kwargs
SessionId(config, last_user) ==
    LET from_config == SessionFromConfig(config)
        ak == IF HasAttr(last_user, "additional_kwargs")
              THEN GetAttr(last_user, "additional_kwargs")
              ELSE IF IsDict(last_user)
              THEN Or(Get(last_user, "additional_kwargs"), Dict(<<>>, <<>>))
              ELSE None
    IN  IF from_config = Str(<<"unknown">>) /\ IsDict(ak)
        THEN Or(Get(ak, "session_id"), from_config)
        ELSE from_config

\* user_text: the content of last_user as a string
UserText(last_user) ==
    LET attr == GetAttr(last_user, "content")
        raw  == IF IsNone(attr) /\ IsDict(last_user)
                THEN _get(last_user, "content", Str(<<>>)) ELSE attr
    IN  IF IsStr(raw) THEN raw.s
        ELSE IF IsNone(raw) THEN <<>> ELSE PyStr(raw)

ResponseKeys == <<"answer", "message", "text", "content", "response">>

RECURSIVE FirstTextAnyString(_, _)
\* an extraction that takes the first string field, blank or not
FirstTextAnyString(data, ks) ==
    IF ks = <<>> THEN PyStr(data)
    ELSE LET val == Get(data, ks[1])
         IN  IF IsStr(val) THEN val.s
             ELSE FirstTextAnyString(data, Tail(ks))

RECURSIVE FirstText(_, _)
FirstText(data, ks) ==
    IF ks = <<>> THEN PyStr(data)
    ELSE LET val == Get(data, ks[1])
         IN  IF IsStr(val) /\ Strip(val.s) # <<>> THEN val.s
             ELSE FirstText(data, Tail(ks))

\* _extract_text_from_response(data); data.get raises on anything but a
\* mapping
_extract_text_from_response(data) ==
    IF IsDict(data) THEN Str(FirstText(data, ResponseKeys))
    ELSE Exc(<<"object has no attribute 'get'">>)

\* str.lower() on the response types of the answers
Lower(cs) ==
    [i \in DOMAIN cs |-> IF cs[i] = "Table" THEN "table" ELSE cs[i]]

\* resp_type of the agent
RespType(backend) ==
    LET resp_type == Or(Get(backend, "responseType"),
                     Or(Get(backend, "type"), Get(backend, "format")))
    IN  IF IsStr(resp_type) THEN Str(Lower(resp_type.s)) ELSE resp_type

\* a test of the table branch that looks at the type only
IsTableByTypeOnly(backend) == RespType(backend) = Str(<<"table">>)

\* the test of the table branch
IsTable(backend) ==
    \/ RespType(backend) = Str(<<"table">>)
    \/ IsDict(backend) /\ HasKey(backend, "columns") /\ HasKey(backend, "values")

\* _maybe_generate_explanation, the explanation task having produced expl
_maybe_generate_explanation(backend, expl) ==
    IF ~IsTable(backend) THEN None
    ELSE IF IsRaised(expl) THEN None
    ELSE Or(expl, None)

\* entrypoint.final(value=..., save=...), with the backend calls of the turn
\* and what the last of them produced
Final(value, save, queries, answer) ==
    [value |-> value, save |-> save, queries |-> queries, answer |-> answer]

\* previous or []
PreviousOrEmpty(previous) == IF Truthy(previous) THEN previous.items ELSE <<>>

\* agent(messages, previous, config): one turn, the backend query having
\* produced backend and the explanation task expl
agent(messages, previous, config, backend, expl) ==
    LET last_user  == LastUser(messages.items)
        user_text  == UserText(last_user)
        session_id == SessionId(config, last_user)
        query      == [query |-> user_text, session_id |-> session_id]
        text       == _extract_text_from_response(backend)
    IN  IF ~Truthy(messages)
        THEN Final(AIMessage(<<"No input message received.">>), None,
                   <<>>, None)
        ELSE IF IsNone(last_user)
        THEN Final(AIMessage(<<"No user message found.">>), None, <<>>, None)
        ELSE IF Strip(user_text) = <<>>
        THEN Final(AIMessage(<<>>), None, <<>>, None)
        ELSE IF IsRaised(backend)
        THEN Final(AIMessage(<<"Backend error: ">> \o backend.s), None,
                   <<query>>, backend)
        ELSE IF IsRaised(text)
        THEN Final(AIMessage(<<"Backend error: ">> \o text.s), None,
                   <<query>>, backend)
        ELSE LET explained == _maybe_generate_explanation(backend, expl)
                 ai == IF IsTable(backend)
                       THEN AIMessageIrbot(IF Truthy(explained)
                                           THEN explained.s ELSE text.s,
                                           backend)
                       ELSE AIMessage(text.s)
             IN  Final(ai,
                       List(PreviousOrEmpty(previous)
                            \o <<HumanMessage(Str(user_text)), ai>>),
                       <<query>>, backend)

\* the message lists of a run: none, a question as an object or as a
\* mapping, a blank question, a list without a human message, a question
\* followed by an empty one, two questions
AgentInputs ==
    { List(<<>>),
      List(<<HumanMessage(Str(<<"q">>))>>),
      List(<<Dict(<<"role", "content">>, <<Str(<<"user">>), Str(<<"q">>)>>)>>),
      List(<<HumanMessage(Str(<<" ">>))>>),
      List(<<AIMessage(<<"a">>)>>),
      List(<<HumanMessage(Str(<<"p">>)),
             Dict(<<"type", "content">>, <<Str(<<"human">>), Str(<<>>)>>)>>),
      List(<<HumanMessage(Str(<<"p">>)), HumanMessage(Str(<<"q">>))>>) }

\* the run configurations: of the client with and without a session, none
AgentConfigs ==
    { None, BuildConfig(None), BuildConfig(Str(OldId)) }

\* what the backend query produces: errors, a text answer, a table, a
\* mapping without text, a list
BackendOutcomes ==
    { Exc(<<"IRBOT_API_KEY is not set">>),
      Exc(<<"500", "Server Error">>),
      Dict(<<"answer">>, <<Str(<<"A">>)>>),
      Dict(<<"responseType", "columns", "values">>,
           <<Str(<<"Table">>), List(<<Str(<<"x">>)>>), List(<<>>)>>),
      Dict(<<"status">>, <<Str(<<"ok">>)>>),
      List(<<Str(<<"A">>)>>),
      Dict(<<"type", "text">>, <<Str(<<"table">>), Str(<<"A">>)>>),
      Dict(<<"columns", "values", "message">>,
           <<List(<<Str(<<"x">>)>>), List(<<>>), Str(<<"A">>)>>),
      Dict(<<"responseType", "answer">>, <<Str(<<"text">>), Str(<<"A">>)>>) }

\* what the explanation task produces
ExplOutcomes == { Exc(<<"llm">>), Str(<<>>), Str(<<"E">>) }

\* the histories a thread may have saved before: none, one exchange
Histories ==
    { None, List(<<HumanMessage(Str(<<"q0">>)), AIMessage(<<"a0">>)>>) }

InitAgent ==
    /\ pc = "idle"
    /\ attempt = 0
    /\ thread_id = None
    /\ updated_thread_id = None
    /\ loc = FreshLocals
    /\ evlog = <<>>
    /\ result = ErrorResult
    /\ calls = <<>>
    /\ returns = 0
    /\ file = None
    /\ mgr = MgrIdle
    /\ cli = CliOff
    /\ \E messages \in AgentInputs, previous \in Histories,
          config \in AgentConfigs :
           fn = [name |-> "agent",
                 args |-> [messages |-> messages, previous |-> previous,
                           config |-> config, turn |-> 1, expl |-> None],
                 out |-> Final(None, None, <<>>, None), done |-> FALSE]

\* the agent runs one turn; what it saves is what the thread holds next
\* (args.expl keeps what the explanation task produces in this turn)
AgentTurn(backend, expl) ==
    /\ fn.name = "agent"
    /\ ~fn.done
    /\ fn' = [fn EXCEPT !.out = agent(fn.args.messages, fn.args.previous,
                                      fn.args.config, backend, expl),
                        !.args = [@ EXCEPT !.expl = expl],
                        !.done = TRUE]
    /\ UNCHANGED <<sendvars, cli, file, mgr>>

\* the next run on the thread: previous is the value saved by the last one
AgentInvoke(messages) ==
    /\ fn.name = "agent"
    /\ fn.done
    /\ fn.args.turn < MaxInvocations
    /\ fn' = [fn EXCEPT !.args = [messages |-> messages,
                                  previous |-> fn.out.save,
                                  config |-> fn.args.config,
                                  turn |-> fn.args.turn + 1,
                                  expl |-> None],
                        !.out = Final(None, None, <<>>, None),
                        !.done = FALSE]
    /\ UNCHANGED <<sendvars, cli, file, mgr>>

NextAgent ==
    \/ \E b \in BackendOutcomes, e \in ExplOutcomes : AgentTurn(b, e)
    \/ \E messages \in AgentInputs : AgentInvoke(messages)

SpecAgent == InitAgent /\ [][NextAgent]_vars

(***************************************************************************)
(* One turn of the agent for every placement of a session id in the run    *)
(* configuration and in the message                                        *)
(***************************************************************************)
RECURSIVE PresentKeys(_, _)
PresentKeys(ks, vs) ==
    IF ks = <<>> THEN <<>>
    ELSE (IF IsNone(vs[1]) THEN <<>> ELSE <<ks[1]>>)
         \o PresentKeys(Tail(ks), Tail(vs))

RECURSIVE PresentValues(_)
PresentValues(vs) ==
    IF vs = <<>> THEN <<>>
    ELSE (IF IsNone(vs[1]) THEN <<>> ELSE <<vs[1]>>)
         \o PresentValues(Tail(vs))

\* the mapping with the keys ks whose value is not None
DictOf(ks, vs) == Dict(PresentKeys(ks, vs), PresentValues(vs))

\* a run configuration with ids at the top level and under "configurable"
ConfigWith(top_id, top_thread, conf_id, conf_session, conf_thread) ==
    DictOf(<<"thread_id", "thread", "configurable">>,
           <<top_id, top_thread,
             DictOf(<<"user_email", "thread_id", "session_id", "thread">>,
                    <<UserEmail, conf_id, conf_session, conf_thread>>)>>)

\* the message the client builds, as an object and as a mapping
ClientMessage(kwargs) ==
    Obj(<<"type", "content", "additional_kwargs">>,
        <<Str(<<"human">>), Str(<<"q">>), kwargs>>)

ClientMessageMapping(kwargs) ==
    Dict(<<"type", "content", "additional_kwargs">>,
         <<Str(<<"human">>), Str(<<"q">>), kwargs>>)

\* the configurations of the resolution: every placement of five ids, the
\* two the client builds, and one whose id reads "unknown"
SessionConfigs ==
    { ConfigWith(a, b, c, d, e) :
        a \in {None, Str(<<"top_thread_id">>)},
        b \in {None, Str(<<"top_thread">>)},
        c \in {None, Str(<<"conf_thread_id">>)},
        d \in {None, Str(<<"conf_session_id">>)},
        e \in {None, Str(<<"conf_thread">>)} }
    \cup { BuildConfig(None), BuildConfig(Str(OldId)),
           ConfigWith(None, None, Str(<<"unknown">>), None, None) }

\* the messages of the resolution: without hint, with a hint, and the two
\* the client builds
SessionMessages ==
    { ClientMessage(Dict(<<>>, <<>>)),
      ClientMessage(Dict(<<"session_id">>, <<Str(<<"hint">>)>>)),
      ClientMessageMapping(Dict(<<"session_id">>, <<Str(<<"hint">>)>>)),
      ClientMessage(BuildKwargs(Str(OldId))) }

InitResolve ==
    /\ pc = "idle"
    /\ attempt = 0
    /\ thread_id = None
    /\ updated_thread_id = None
    /\ loc = FreshLocals
    /\ evlog = <<>>
    /\ result = ErrorResult
    /\ calls = <<>>
    /\ returns = 0
    /\ file = None
    /\ mgr = MgrIdle
    /\ cli = CliOff
    /\ \E config \in SessionConfigs, m \in SessionMessages :
           fn = [name |-> "session_id", args |-> <<config, m>>,
                 out |-> Final(None, None, <<>>, None), done |-> FALSE]

\* one turn of the agent on the message, the backend answering
ApplyResolve ==
    /\ fn.name = "session_id"
    /\ ~fn.done
    /\ fn' = [fn EXCEPT
                !.out = agent(List(<<fn.args[2]>>), None, fn.args[1],
                              Dict(<<"answer">>, <<Str(<<"A">>)>>), Str(<<>>)),
                !.done = TRUE]
    /\ UNCHANGED <<sendvars, cli, file, mgr>>

NextResolve == ApplyResolve

SpecResolve == InitResolve /\ [][NextResolve]_vars

(***************************************************************************)
(* The base agent (ace_base_agent.py): the history is merged with the      *)
(* turn's messages, the model is called on the merged list, and the list   *)
(* with the response is saved for the next turn                            *)
(***************************************************************************)
\* a message of the base agent; id 0 stands for a message without id
BaseMessage(type, content, id) ==
    [type |-> type, content |-> content, id |-> id]

\* previous of a first turn (None) and of a later one
NoPrevious == [set |-> FALSE, msgs |-> <<>>]

Previous(ms) == [set |-> TRUE, msgs |-> ms]

IdsOf(ms) == { ms[i].id : i \in 1..Len(ms) } \ {0}

\* an id no message of the set carries, as a generated uuid is
FreshId(used) ==
    LET above == used \cup {9}
    IN  1 + CHOOSE n \in above : \A k \in above : k <= n

\* add_messages gives every message without id a generated one
RECURSIVE AssignIds(_, _)
AssignIds(ms, used) ==
    IF ms = <<>> THEN <<>>
    ELSE IF ms[1].id = 0
    THEN <<[ms[1] EXCEPT !.id = FreshId(used)]>>
         \o AssignIds(Tail(ms), used \cup {FreshId(used)})
    ELSE <<ms[1]>> \o AssignIds(Tail(ms), used)

\* a merge that appends every message of the right list
MergeOneAppending(merged, m) == Append(merged, m)

\* one message of the right list merged: it takes the place of the message
\* with its id, or it is appended
MergeOne(merged, m) ==
    IF \E i \in 1..Len(merged) : merged[i].id = m.id
    THEN [i \in 1..Len(merged) |->
             IF merged[i].id = m.id THEN m ELSE merged[i]]
    ELSE Append(merged, m)

RECURSIVE MergeAll(_, _)
MergeAll(merged, right) ==
    IF right = <<>> THEN merged
    ELSE MergeAll(MergeOne(merged, right[1]), Tail(right))

\* add_messages(left, right) as the agent calls it
add_messages(left, right) ==
    LET used == IdsOf(left) \cup IdsOf(right)
        l    == AssignIds(left, used)
        r    == AssignIds(right, used \cup IdsOf(l))
    IN  MergeAll(l, r)

\* what call_model can do: raise, or return a response
LlmOutcomes == { "raise", "A" }

\* agent(messages, previous): an exception of call_model leaves the
\* function, nothing is returned and nothing is saved
BaseAgent(messages, previous, llm) ==
    LET merged == IF previous.set THEN add_messages(previous.msgs, messages)
                  ELSE messages
        llm_response == BaseMessage("ai", llm, 0)
    IN  IF llm = "raise"
        THEN [raised |-> TRUE, value |-> <<>>, save |-> previous]
        ELSE [raised |-> FALSE,
              value  |-> <<llm_response>>,
              save   |-> Previous(add_messages(merged, <<llm_response>>))]

\* the message lists a turn of the base agent receives
BaseInputs ==
    { << BaseMessage("human", "p", 0) >>,
      << BaseMessage("human", "q", 0) >>,
      << BaseMessage("human", "p", 1) >>,
      << BaseMessage("human", "q", 1) >>,
      << BaseMessage("human", "p", 0), BaseMessage("human", "q", 0) >> }

InitBase ==
    /\ pc = "idle"
    /\ attempt = 0
    /\ thread_id = None
    /\ updated_thread_id = None
    /\ loc = FreshLocals
    /\ evlog = <<>>
    /\ result = ErrorResult
    /\ calls = <<>>
    /\ returns = 0
    /\ file = None
    /\ mgr = MgrIdle
    /\ cli = CliOff
    /\ \E messages \in BaseInputs :
           fn = [name |-> "base",
                 args |-> [messages |-> messages, previous |-> NoPrevious,
                           turn |-> 1],
                 out  |-> [raised |-> FALSE, value |-> <<>>,
                           save |-> NoPrevious],
                 done |-> FALSE]

\* one turn of the base agent
BaseTurn(llm) ==
    /\ fn.name = "base"
    /\ ~fn.done
    /\ fn' = [fn EXCEPT
                !.out = BaseAgent(fn.args.messages, fn.args.previous, llm),
                !.done = TRUE]
    /\ UNCHANGED <<sendvars, cli, file, mgr>>

\* the next invocation on the thread: previous is what the last turn saved
BaseInvoke(messages) ==
    /\ fn.name = "base"
    /\ fn.done
    /\ fn.args.turn < MaxInvocations
    /\ fn' = [fn EXCEPT
                !.args = [messages |-> messages, previous |-> fn.out.save,
                          turn |-> fn.args.turn + 1],
                !.done = FALSE]
    /\ UNCHANGED <<sendvars, cli, file, mgr>>

NextBase ==
    \/ \E llm \in LlmOutcomes : BaseTurn(llm)
    \/ \E messages \in BaseInputs : BaseInvoke(messages)

SpecBase == InitBase /\ [][NextBase]_vars

(***************************************************************************)
(* Turns of either agent: the histories both agents save                   *)
(***************************************************************************)
InitHistory == InitAgent \/ InitBase

NextHistory == NextAgent \/ NextBase

SpecHistory == InitHistory /\ [][NextHistory]_vars

(***************************************************************************)
(* _extract_text_from_response applied on its own to backend responses     *)
(***************************************************************************)
\* what a response may hold under one of its keys: a text, a blank text, an
\* empty text, null, a number
FieldValues ==
    { Str(<<"T">>), Str(<<" ">>), Str(<<>>), None, Int(<<"7">>) }

\* the text a response holds under key k, marked with the key
Marked(k, v) == IF v = Str(<<"T">>) THEN Str(<<"T", k>>) ELSE v

\* the responses: every subset of three of the conventional keys and of a
\* key of no meaning, in two orders, the values drawn from FieldValues
ResponseKeySets ==
    { <<>>, <<"answer">>, <<"text">>, <<"response">>, <<"caption">>,
      <<"answer", "text">>, <<"text", "answer">>, <<"response", "text">>,
      <<"caption", "response">>, <<"message", "content">>,
      <<"content", "message">> }

Responses ==
    { Dict(ks, [i \in DOMAIN ks |-> Marked(ks[i], vs[i])]) :
        ks \in { k \in ResponseKeySets : Len(k) = 2 },
        vs \in [1..2 -> FieldValues] }
    \cup { Dict(ks, [i \in DOMAIN ks |-> Marked(ks[i], vs[i])]) :
             ks \in { k \in ResponseKeySets : Len(k) = 1 },
             vs \in [1..1 -> FieldValues] }
    \cup { Dict(<<>>, <<>>) }

InitExtract ==
    /\ pc = "idle"
    /\ attempt = 0
    /\ thread_id = None
    /\ updated_thread_id = None
    /\ loc = FreshLocals
    /\ evlog = <<>>
    /\ result = ErrorResult
    /\ calls = <<>>
    /\ returns = 0
    /\ file = None
    /\ mgr = MgrIdle
    /\ cli = CliOff
    /\ \E data \in Responses :
           fn = [name |-> "_extract_text_from_response", args |-> <<data>>,
                 out |-> None, done |-> FALSE]

ApplyExtract ==
    /\ fn.name = "_extract_text_from_response"
    /\ ~fn.done
    /\ fn' = [fn EXCEPT !.out = _extract_text_from_response(fn.args[1]),
                        !.done = TRUE]
    /\ UNCHANGED <<sendvars, cli, file, mgr>>

NextExtract == ApplyExtract

SpecExtract == InitExtract /\ [][NextExtract]_vars

(***************************************************************************)
(* Vocabulary of the properties                                            *)
(***************************************************************************)
\* the error text contains "404" or "Not Found"
IndicatesNotFound(err) ==
    \E i \in 1..Len(err) : err[i] \in {"404", "Not Found"}

\* a stream attempt that ended with a not-found error
NotFoundRaised(c) ==
    c.op = "stream" /\ c.end = "raised" /\ IndicatesNotFound(c.err)

\* a stream attempt that ended with any other error
OtherRaised(c) ==
    c.op = "stream" /\ c.end = "raised" /\ ~IndicatesNotFound(c.err)

NumStreams == Cardinality({k \in DOMAIN calls : calls[k].op = "stream"})

NumCreates == Cardinality({k \in DOMAIN calls : calls[k].op = "create"})

\* the logical send has returned
Done == pc = "done"

\* the first attempt was made with a session id and raised not-found
SessionLost ==
    Len(calls) >= 1 /\ Truthy(calls[1].thread) /\ NotFoundRaised(calls[1])

(***************************************************************************)
(* C1, as stated: after a session loss exactly one thread is force-created *)
(* and exactly one retry follows; if the retry raises not-found too,       *)
(* exactly one threadless attempt follows it; nothing follows that.        *)
(***************************************************************************)
C1_RecoveryAsStated ==
    (Done /\ SessionLost) =>
        /\ NumCreates = 1
        /\ Len(calls) >= 3
        /\ calls[2].op = "create"
        /\ calls[3].op = "stream" /\ calls[3].thread = calls[2].thread
        /\ IF NotFoundRaised(calls[3])
           THEN /\ Len(calls) = 4
                /\ calls[4].op = "stream" /\ calls[4].thread = None
           ELSE Len(calls) = 3

(***************************************************************************)
(* C1, amended: as above, but the threadless attempt follows a not-found   *)
(* retry only when the retry was made with the newly created session id;   *)
(* when creation yielded no id the retry is itself threadless and is the   *)
(* last attempt.  No second creation is ever requested.                    *)
(***************************************************************************)
C1_RecoverySequence ==
    /\ \A k \in DOMAIN calls : calls[k].op = "create" => k = 2
    /\ (Done /\ SessionLost) =>
        /\ NumCreates = 1
        /\ Len(calls) >= 3
        /\ calls[2].op = "create"
        /\ calls[3].op = "stream" /\ calls[3].thread = calls[2].thread
        /\ IF NotFoundRaised(calls[3]) /\ Truthy(calls[3].thread)
           THEN /\ Len(calls) = 4
                /\ calls[4].op = "stream" /\ calls[4].thread = None
           ELSE Len(calls) = 3

\* C1 witness: both retries were made and the threadless one failed as well
C1_Witness ==
    /\ Done /\ SessionLost
    /\ Len(calls) = 4
    /\ NotFoundRaised(calls[3]) /\ NotFoundRaised(calls[4])

(***************************************************************************)
(* C2, as stated: a logical send opens at most two stream attempts and     *)
(* each attempt produces at most one result.                               *)
(***************************************************************************)
C2_AtMostTwoAttempts == NumStreams <= 2 /\ returns <= NumStreams

(***************************************************************************)
(* C2, amended: a logical send opens at most three stream attempts (the    *)
(* first, the retry with a new session, the threadless fallback) and each  *)
(* attempt produces at most one result.                                    *)
(***************************************************************************)
C2_AtMostThreeAttempts ==
    /\ NumStreams <= 3
    /\ returns <= NumStreams
    /\ Done => returns = NumStreams
    /\ Done => \A k \in DOMAIN calls : calls[k].end # "open"

\* C2 witness: a send that needed all three attempts, the last one closing
C2_Witness == Done /\ NumStreams = 3 /\ calls[Len(calls)].end = "closed"

(***************************************************************************)
(* C3: in any attempt an error that does not indicate not-found ends the   *)
(* send: nothing is called after it, and the send returns empty text and   *)
(* no metadata.                                                            *)
(***************************************************************************)
C3_OtherErrorTerminal ==
    \A k \in DOMAIN calls :
        OtherRaised(calls[k]) =>
            /\ k = Len(calls)
            /\ Done
            /\ result.text = <<>>
            /\ result.metadata = None

\* C3 witness: the retry attempt fails with another error after it had
\* already captured an answer and metadata
C3_Witness ==
    /\ Done
    /\ Len(calls) = 3 /\ OtherRaised(calls[3])
    /\ loc.last_text # <<>> /\ loc.last_metadata # None

(***************************************************************************)
(* C4: an attempt made without a session id is the last one, whatever      *)
(* error it raises: no session is created and no attempt is made after it. *)
(***************************************************************************)
C4_ThreadlessTerminal ==
    \A k \in DOMAIN calls :
        (calls[k].op = "stream" /\ ~Truthy(calls[k].thread)
            /\ calls[k].end = "raised") =>
            k = Len(calls) /\ Done

\* C4 witness: the retry after a failed creation is threadless, raises
\* not-found, and the send is over
C4_Witness ==
    /\ Done /\ SessionLost
    /\ Len(calls) = 3
    /\ calls[2].op = "create" /\ calls[2].thread = None
    /\ NotFoundRaised(calls[3])

(***************************************************************************)
(* C5: first attempt not-found, creation yields N, the retry with N closes *)
(* normally with text T: the send returns T, the retry's metadata, and N   *)
(* as the updated session id.                                              *)
(***************************************************************************)
C5_RetrySucceeds ==
    (/\ Done /\ SessionLost
     /\ Len(calls) = 3
     /\ Truthy(calls[2].thread)
     /\ calls[3].end = "closed") =>
        /\ calls[3].thread = calls[2].thread
        /\ result.updated = calls[2].thread
        /\ result.text = loc.last_text
        /\ result.metadata = loc.last_metadata

\* C5 witness: the retry closed with a text and metadata
C5_Witness ==
    /\ Done /\ SessionLost
    /\ Len(calls) = 3 /\ Truthy(calls[2].thread) /\ calls[3].end = "closed"
    /\ result.text = <<"A">> /\ result.metadata = PlainMd

(***************************************************************************)
(* C6: a non-null updated session id is the id of a session created in     *)
(* this send after a not-found error; a send whose first attempt closes    *)
(* normally returns none, creates nothing and makes one attempt.           *)
(***************************************************************************)
C6_UpdatedOnlyAfterRecovery ==
    /\ result.updated # None =>
        /\ SessionLost
        /\ Len(calls) >= 3
        /\ calls[2].op = "create" /\ calls[2].end = "returned"
        /\ calls[2].thread = result.updated
    /\ (Done /\ calls[1].end = "closed") =>
        /\ result.updated = None
        /\ NumCreates = 0
        /\ NumStreams = 1

\* C6 witness: a send with a session id whose first attempt closes with text
C6_Witness ==
    /\ Done
    /\ Truthy(calls[1].thread) /\ calls[1].end = "closed"
    /\ result.text # <<>>

(***************************************************************************)
(* Vocabulary of the properties about the events of one attempt            *)
(***************************************************************************)
\* the innermost attempt's stream closed normally and the send returned
ClosedNormally == Done /\ calls[Len(calls)].end = "closed"

IsSnapshot(i) == Events[i].evt = <<"values">>

IsTokenDelta(i) == Contains(Events[i].evt, "on_chat_model_stream")

\* the messages of a snapshot: its message list, or its single value
SnapshotMessages(i) ==
    LET data == Events[i].data
    IN  IF IsDict(data) /\ IsList(Lookup(data, "messages"))
        THEN Lookup(data, "messages").items
        ELSE <<data>>

AssistantAuthored(m) ==
    /\ m.t \in {"dict", "obj"}
    /\ Lookup(m, "type") \in {Str(<<"ai">>), Str(<<"assistant">>)}
    /\ IsStr(Lookup(m, "content"))

\* positions of the assistant-authored messages of snapshot i
AssistantPositions(i) ==
    {k \in 1..Len(SnapshotMessages(i)) : AssistantAuthored(SnapshotMessages(i)[k])}

MaxOf(S) == CHOOSE n \in S : \A m \in S : m <= n

\* the text of the last assistant-authored message of snapshot i
LastAssistantText(i) ==
    Lookup(SnapshotMessages(i)[MaxOf(AssistantPositions(i))], "content").s

\* positions in evlog of the snapshot events
SnapshotPositions == {k \in 1..Len(evlog) : IsSnapshot(evlog[k])}

\* event i on its own captures an authoritative answer
Captures(i) ==
    ProcessEvent(FreshLocals, Events[i].evt, Events[i].data).last_text # <<>>

\* the answer event i captures
CapturedText(i) ==
    ProcessEvent(FreshLocals, Events[i].evt, Events[i].data).last_text

CapturingPositions == {k \in 1..Len(evlog) : Captures(evlog[k])}

RECURSIVE ConcatAll(_)
ConcatAll(texts) ==
    IF texts = <<>> THEN <<>> ELSE texts[1] \o ConcatAll(Tail(texts))

\* the fragment a token-delta event carries
Fragment(i) == PartText(Events[i].data)

RECURSIVE TokenFragments(_)
\* the fragments of the token-delta events among the given events, in order
TokenFragments(idxs) ==
    IF idxs = <<>> THEN <<>>
    ELSE (IF IsTokenDelta(idxs[1]) THEN Fragment(idxs[1]) ELSE <<>>)
         \o TokenFragments(Tail(idxs))

\* how many times txt was written while the current event was processed
TimesSurfaced(txt) == Cardinality({k \in DOMAIN loc.out : loc.out[k] = txt})

(***************************************************************************)
(* C7: in a stream of snapshot and token-delta events that closes          *)
(* normally, when the latest snapshot holds an assistant-authored message  *)
(* the final text is the text of the last assistant-authored message of    *)
(* that snapshot, whatever the roles of its other messages.                *)
(***************************************************************************)
C7_LatestSnapshotWins ==
    (/\ ClosedNormally
     /\ \A k \in 1..Len(evlog) : IsSnapshot(evlog[k]) \/ IsTokenDelta(evlog[k])
     /\ SnapshotPositions # {}
     /\ AssistantPositions(evlog[MaxOf(SnapshotPositions)]) # {}) =>
        result.text = LastAssistantText(evlog[MaxOf(SnapshotPositions)])

(***************************************************************************)
(* C8: at normal close the final text is the authoritative answer captured *)
(* last, if any event captured one (the token buffer is then ignored);     *)
(* otherwise the fragments of the token buffer joined in arrival order;    *)
(* otherwise the empty string.                                             *)
(***************************************************************************)
C8_FinalSelection ==
    ClosedNormally =>
        IF CapturingPositions # {}
        THEN result.text = CapturedText(evlog[MaxOf(CapturingPositions)])
        ELSE IF loc.assembled_text # <<>>
             THEN result.text = ConcatAll(loc.assembled_text)
             ELSE result.text = <<>>

\* C8 witness: tokens were buffered and an answer was captured; the answer
\* is returned
C8_Witness ==
    /\ ClosedNormally
    /\ CapturingPositions # {}
    /\ loc.assembled_text = << <<"x">> >>
    /\ result.text = <<"A">>

(***************************************************************************)
(* C9: a token-delta event puts its fragment into the token buffer once    *)
(* and surfaces it once, whatever its payload shape: with no authoritative *)
(* answer the final text is the fragments of the token-delta events, each  *)
(* once, in arrival order.                                                 *)
(***************************************************************************)
C9_TokenDeltaOnce ==
    /\ (pc = "stream" /\ evlog # <<>> /\ IsTokenDelta(evlog[Len(evlog)])) =>
           TimesSurfaced(Fragment(evlog[Len(evlog)])) = 1
    /\ (ClosedNormally /\ CapturingPositions = {}) =>
           result.text = TokenFragments(evlog)

(***************************************************************************)
(* C10: while one event is processed no literal text is surfaced twice,    *)
(* whichever rules match it.                                               *)
(***************************************************************************)
C10_SurfacedOncePerEvent ==
    \A j, k \in DOMAIN loc.out : j # k => loc.out[j] # loc.out[k]

(***************************************************************************)
(* Vocabulary of the properties about nested payloads and metadata         *)
(***************************************************************************)
\* the event processed last by the loop
LastEvent == evlog[Len(evlog)]

RECURSIVE AllAssistantTexts(_)
RECURSIVE AllAssistantTextsSeq(_)
\* the texts of the assistant-authored messages found anywhere in v, whatever
\* the path that leads to them
AllAssistantTexts(v) ==
    (IF AssistantAuthored(v) THEN <<Lookup(v, "content").s>> ELSE <<>>)
    \o (IF v.t \in {"list", "dict", "obj"}
        THEN AllAssistantTextsSeq(v.items) ELSE <<>>)

AllAssistantTextsSeq(xs) ==
    IF xs = <<>> THEN <<>>
    ELSE AllAssistantTexts(xs[1]) \o AllAssistantTextsSeq(Tail(xs))

\* the number of paths of event i's payload that reach assistant text txt
PathsTo(i, txt) ==
    LET found == AllAssistantTexts(Events[i].data)
    IN  Cardinality({k \in DOMAIN found : found[k] = txt})

(***************************************************************************)
(* C11: when the payload of the event just processed holds the same        *)
(* assistant-authored text under two different nested paths, that text has *)
(* been surfaced exactly once for the event.                               *)
(***************************************************************************)
C11_NestedTextOnce ==
    (pc = "stream" /\ evlog # <<>>) =>
        \A txt \in {<<"A">>, <<"B">>} :
            PathsTo(LastEvent, txt) >= 2 => TimesSurfaced(txt) = 1

\* the part of C11 that holds: both paths lie under node names, and the
\* seen-set of the nested-update rule surfaces the text once
C11_UnderNodesOnce ==
    (pc = "stream" /\ evlog # <<>> /\ LastEvent = 10) =>
        /\ PathsTo(10, <<"A">>) = 2
        /\ TimesSurfaced(<<"A">>) = 1

\* _prefer_irbot_metadata has been applied to (current, new)
Preferred == fn.name = "_prefer_irbot_metadata" /\ fn.done

(***************************************************************************)
(* C12: _prefer_irbot_metadata(current, new) returns current when new is   *)
(* null and new when current is null; otherwise new when new holds the key *)
(* "irbot" and current does not, current when current holds it and new     *)
(* does not, and new when neither holds it.                                *)
(***************************************************************************)
C12_PreferIrbot ==
    Preferred =>
        LET current == fn.args[1]
            new_md  == fn.args[2]
        IN  /\ IsNone(new_md) => fn.out = current
            /\ (IsNone(current) /\ ~IsNone(new_md)) => fn.out = new_md
            /\ (~IsNone(current) /\ ~IsNone(new_md)) =>
                /\ (HasKey(new_md, "irbot") /\ ~HasKey(current, "irbot")) =>
                       fn.out = new_md
                /\ (HasKey(current, "irbot") /\ ~HasKey(new_md, "irbot")) =>
                       fn.out = current
                /\ (~HasKey(current, "irbot") /\ ~HasKey(new_md, "irbot")) =>
                       fn.out = new_md

\* C12 witness: an irbot map was kept against a later generic one
C12_Witness ==
    /\ Preferred
    /\ fn.args = <<IrbotMd, PlainMd>>
    /\ fn.out = IrbotMd

\* the loop has just processed one more event of the current attempt
EventStep ==
    /\ pc = "stream" /\ pc' = "stream"
    /\ attempt' = attempt
    /\ evlog' # evlog /\ Len(evlog') = Len(evlog) + 1

RECURSIVE AllMetadata(_)
RECURSIVE AllMetadataSeq(_)
\* the response_metadata maps found anywhere in v, in payload order
AllMetadata(v) ==
    (IF v.t \in {"dict", "obj"} /\ IsDict(Lookup(v, "response_metadata"))
     THEN <<Lookup(v, "response_metadata")>> ELSE <<>>)
    \o (IF v.t \in {"list", "dict", "obj"} THEN AllMetadataSeq(v.items) ELSE <<>>)

AllMetadataSeq(xs) ==
    IF xs = <<>> THEN <<>>
    ELSE AllMetadata(xs[1]) \o AllMetadataSeq(Tail(xs))

(***************************************************************************)
(* C13: within one attempt, once the captured metadata holds the key       *)
(* "irbot" it holds it after every later event, whichever rule extracts    *)
(* metadata from that event; the attempt returns the captured metadata.    *)
(***************************************************************************)
C13_IrbotNeverReplaced ==
    [][ /\ (EventStep /\ HasKey(loc.last_metadata, "irbot")) =>
               HasKey(loc'.last_metadata, "irbot")
        /\ (pc = "stream" /\ pc' = "done" /\ calls'[Len(calls')].end = "closed") =>
               result'.metadata = loc.last_metadata ]_vars

\* the part of C13 that holds: the nested-update rule and the updates scan
\* go through _prefer_irbot_metadata and keep an irbot map
C13_KeptByPreference ==
    (/\ pc = "stream" /\ Len(evlog) = 2
     /\ evlog[1] \in {4, 10} /\ evlog[2] = 9) =>
        HasKey(loc.last_metadata, "irbot")

\* the event of the step being taken
StepEvent == evlog'[Len(evlog')]

\* the irbot-bearing maps of event i's payload, in payload order
IrbotMaps(i) ==
    SelectSeq(AllMetadata(Events[i].data), LAMBDA md : HasKey(md, "irbot"))

\* event i shows an irbot-bearing map other than cur
ShowsOtherIrbot(i, cur) ==
    \E k \in DOMAIN IrbotMaps(i) : IrbotMaps(i)[k] # cur

\* the maps of event i that a rule assigns to last_metadata directly: those
\* of the items of a data list, of a values payload itself, and of the items
\* of a top-level message list, in that order
DirectMaps(i) ==
    LET data   == Events[i].data
        listed == IF IsList(data) THEN data.items ELSE <<>>
        own    == IF Events[i].evt = <<"values">> THEN <<data>> ELSE <<>>
        top    == IF data.t \in {"dict", "obj"}
                     /\ IsList(Lookup(data, "messages"))
                  THEN Lookup(data, "messages").items ELSE <<>>
    IN  SelectSeq(listed \o own \o top,
                  LAMBDA m : /\ m.t \in {"dict", "obj"}
                             /\ IsDict(Lookup(m, "response_metadata")))

NestedUpdate(i) ==
    LET data == Events[i].data
    IN  /\ StartsWith(Events[i].evt, "updates")
        /\ IsDict(data)
        /\ ~HasKey(data, "messages")
        /\ \A key \in {"result", "output", "final_output", "value", "response"} :
               ~HasKey(data, key)
        /\ AllAssistantTexts(data) # <<>>

\* the stream of the attempt that closed consisted of nested updates only
OnlyNestedUpdates ==
    /\ ClosedNormally
    /\ evlog # <<>>
    /\ \A k \in 1..Len(evlog) : NestedUpdate(evlog[k])

\* the text of the last assistant-authored message of event i's payload
LastNestedText(i) ==
    AllAssistantTexts(Events[i].data)[Len(AllAssistantTexts(Events[i].data))]

(***************************************************************************)
(* C15 as stated: a stream consisting only of nested updates yields the    *)
(* text of the last assistant-authored message of its last event as the    *)
(* final answer.                                                           *)
(***************************************************************************)
C15_NestedTextIsAnswer ==
    OnlyNestedUpdates => result.text = LastNestedText(LastEvent)

(***************************************************************************)
(* C15 amended: a nested update surfaces the assistant texts of its        *)
(* payload, each once, and sets the partial-content flag, but captures no  *)
(* answer: a stream consisting only of nested updates yields the empty     *)
(* string with the flag true.                                              *)
(***************************************************************************)
C15_NestedTextOnlySurfaced ==
    /\ (pc = "stream" /\ evlog # <<>> /\ NestedUpdate(LastEvent)) =>
        /\ \A k \in DOMAIN AllAssistantTexts(Events[LastEvent].data) :
               TimesSurfaced(AllAssistantTexts(Events[LastEvent].data)[k]) = 1
        /\ loc.printed_any
        /\ ~Captures(LastEvent)
    /\ OnlyNestedUpdates => (result.text = <<>> /\ result.printed)

\* C15 witness: a stream of one nested update closed; its text was surfaced
\* and the final text is empty
C15_Witness ==
    /\ OnlyNestedUpdates
    /\ evlog = <<9>>
    /\ loc.out = << <<"A">> >>
    /\ result.text = <<>>
    /\ result.printed

\* processing event i writes at least one text fragment to the caller
EventSurfaces(i) ==
    ProcessEvent(FreshLocals, Events[i].evt, Events[i].data).out # <<>>

\* some event of the attempt that ended the send surfaced a fragment
SurfacedInLastAttempt == \E k \in 1..Len(evlog) : EventSurfaces(evlog[k])

(***************************************************************************)
(* C16: when a send has returned, its partial-content flag is true if a    *)
(* text fragment was surfaced during its last attempt, by whatever rule    *)
(* and whether the stream closed or failed; and for a send of one attempt  *)
(* the flag is true only if a fragment was surfaced.                       *)
(***************************************************************************)
C16_FlagIffSurfaced ==
    Done =>
        /\ SurfacedInLastAttempt => result.printed
        /\ (NumStreams = 1 /\ result.printed) => SurfacedInLastAttempt

\* the direction of C16 that holds: a send of one attempt reports the flag
\* only when a fragment was surfaced
C16_FlagOnlyIfSurfaced ==
    (Done /\ NumStreams = 1 /\ result.printed) => SurfacedInLastAttempt

\* the remote run attempts made so far
StreamCalls == {k \in 1..Len(calls) : calls[k].op = "stream"}

(***************************************************************************)
(* C17: the configuration of every run attempt holds user_email; it holds  *)
(* thread_id and session_id, and the message holds the session hint,       *)
(* exactly when the attempt has a session id, and all three then equal the *)
(* id passed as the run's thread.                                          *)
(***************************************************************************)
C17_RunConfiguration ==
    \A k \in StreamCalls :
        LET c            == calls[k]
            configurable == Lookup(c.config, "configurable")
        IN  /\ IsDict(configurable)
            /\ Lookup(configurable, "user_email") = UserEmail
            /\ HasKey(configurable, "thread_id") <=> ~IsNone(c.thread)
            /\ HasKey(configurable, "session_id") <=> ~IsNone(c.thread)
            /\ HasKey(c.kwargs, "session_id") <=> ~IsNone(c.thread)
            /\ ~IsNone(c.thread) =>
                /\ IsStr(c.thread) /\ c.thread.s # <<>>
                /\ Lookup(configurable, "thread_id") = c.thread
                /\ Lookup(configurable, "session_id") = c.thread
                /\ Lookup(c.kwargs, "session_id") = c.thread

\* C17 witness: three attempts, with the old id, the new id and no id
C17_Witness ==
    /\ Len(calls) = 4
    /\ calls[1].thread = Str(OldId)
    /\ Lookup(Lookup(calls[3].config, "configurable"), "session_id") = Str(NewId)
    /\ calls[4].op = "stream" /\ IsNone(calls[4].thread)
    /\ Lookup(calls[4].config, "configurable").keys = <<"user_email">>

(***************************************************************************)
(* Vocabulary of the properties about the session file                     *)
(***************************************************************************)
\* ensure_thread_id has returned
Ensured == mgr.pc \in {"returned", "loaded"}

\* the identifier a thread file holds: its content without the blanks around
Persisted(f) == IF IsNone(f) THEN <<>> ELSE Strip(f.s)

\* the answers of threads.create() that give no identifier
FailedCreations ==
    {Raised, Dict(<<"status">>, <<Str(<<"idle">>)>>), Str(<<>>)}

(***************************************************************************)
(* C18: ensure_thread_id(reset=false) that reads a non-empty identifier    *)
(* from the file returns it, requests no session and leaves the file as it *)
(* was, without writing it.                                                *)
(***************************************************************************)
C18_ExistingReturned ==
    (/\ Ensured
     /\ ~mgr.reset
     /\ mgr.read = "read"
     /\ Persisted(mgr.file0) # <<>>) =>
        /\ mgr.ret = Str(Persisted(mgr.file0))
        /\ mgr.requests = 0
        /\ mgr.writes = 0
        /\ file = mgr.file0

\* C18 witness: the file held an id between blanks; the id was returned and
\* the file is as it was
C18_Witness ==
    /\ mgr.pc = "returned"
    /\ ~mgr.reset
    /\ mgr.file0 = Str(<<" ">> \o OldId \o <<"\n">>)
    /\ mgr.ret = Str(OldId)
    /\ mgr.requests = 0
    /\ file = mgr.file0

(***************************************************************************)
(* C19: when ensure_thread_id requests a session and the request raises or *)
(* its answer gives no identifier string, ensure_thread_id returns none    *)
(* and the file is as it was, not written.                                 *)
(***************************************************************************)
C19_CreationFailureHarmless ==
    (Ensured /\ mgr.requests = 1 /\ mgr.thread \in FailedCreations) =>
        /\ IsNone(mgr.ret)
        /\ mgr.writes = 0
        /\ file = mgr.file0

\* C19 witness: a reset met an answer without id; the old id is still in
\* the file
C19_Witness ==
    /\ mgr.pc = "returned"
    /\ mgr.reset
    /\ mgr.thread = Dict(<<"status">>, <<Str(<<"idle">>)>>)
    /\ IsNone(mgr.ret)
    /\ file = Str(OldId)

Loaded == fn.name = "load_thread_id" /\ fn.out # <<>>

\* cs consists of blanks only
Blank(cs) == \A k \in DOMAIN cs : cs[k] \in Whitespace

\* r is cs without the blanks at its ends
TrimOf(r, cs) ==
    /\ r # <<>>
    /\ r[1] \notin Whitespace /\ r[Len(r)] \notin Whitespace
    /\ \E i \in 0..Len(cs) :
         /\ i + Len(r) <= Len(cs)
         /\ SubSeq(cs, i + 1, i + Len(r)) = r
         /\ Blank(SubSeq(cs, 1, i))
         /\ Blank(SubSeq(cs, i + Len(r) + 1, Len(cs)))

(***************************************************************************)
(* C21: every call of load_thread_id returns (it never raises): none when  *)
(* the file is absent, when it cannot be read, or when its content is      *)
(* blank; otherwise the content without the blanks at its ends.            *)
(***************************************************************************)
C21_LoadNeverRaises ==
    Loaded =>
        \A k \in DOMAIN fn.out :
            /\ fn.out[k] # Raised
            /\ IF IsNone(file) \/ fn.args[k] = "read_failed" \/ Blank(file.s)
               THEN IsNone(fn.out[k])
               ELSE IsStr(fn.out[k]) /\ TrimOf(fn.out[k].s, file.s)

\* C21 witness: one load failed to read the file, the next returned the id
\* that stands between blanks
C21_Witness ==
    /\ Loaded
    /\ file = Str(<<"\n", "\n", " ">> \o OldId)
    /\ fn.args = <<"read_failed", "read">>
    /\ fn.out = <<None, Str(OldId)>>

CreatedInSend ==
    \E k \in DOMAIN calls :
        /\ calls[k].op = "create"
        /\ calls[k].end = "returned"
        /\ ~IsNone(calls[k].thread)

(***************************************************************************)
(* C22: the session file changes only in the step in which a session-      *)
(* creation call of the send returns an identifier; as long as the send    *)
(* has created no session (first attempt succeeding, terminal error,       *)
(* sessionless send, failed creation) the file is what it was at the start *)
(* of the send.                                                            *)
(***************************************************************************)
C22_FileWrittenOnlyAfterCreation ==
    /\ [][file' # file => (pc = "create" /\ ~CreatedInSend /\ CreatedInSend')]_vars
    /\ [](~CreatedInSend => file \in {None, Str(OldId)})

\* C22 witness: the session was lost, the creation raised, the send went on
\* without session, and the file still holds the old id
C22_Witness ==
    /\ Done /\ SessionLost
    /\ Len(calls) = 3
    /\ calls[2].op = "create" /\ calls[2].end = "raised"
    /\ calls[3].thread = None /\ calls[3].end = "closed"
    /\ file = Str(OldId)

(***************************************************************************)
(* C24: when the write of the session file fails after a session was       *)
(* created in a recovery, the new identifier is still returned by          *)
(* ensure_thread_id: the retry is made with it and the send reports it as  *)
(* the updated session id.                                                 *)
(***************************************************************************)
C24_WriteFailureNotFatal ==
    (/\ Len(calls) >= 2
     /\ calls[2].op = "create"
     /\ ~IsNone(calls[2].thread)
     /\ file # calls[2].thread) =>
        /\ Len(calls) >= 3
        /\ calls[3].op = "stream" /\ calls[3].attempt = 1
        /\ calls[3].thread = calls[2].thread
        /\ updated_thread_id = calls[2].thread
        /\ (Done /\ calls[3].end = "closed") => result.updated = calls[2].thread

\* C24 witness: the write left an empty file, the retry with the new id
\* closed with an answer, and the send reports the new id
C24_Witness ==
    /\ Done
    /\ Len(calls) = 3
    /\ calls[2].op = "create" /\ calls[2].thread = Str(NewId)
    /\ file = Str(<<>>)
    /\ calls[3].end = "closed"
    /\ result.text = <<"A">>
    /\ result.updated = Str(NewId)

(***************************************************************************)
(* C23: when the process has been interrupted while the session file was   *)
(* being saved, the file holds the complete previous content or the        *)
(* complete new identifier, never an empty or partial value.               *)
(***************************************************************************)
C23_InterruptedSaveKeepsFile ==
    mgr.pc = "interrupted" => file \in {mgr.file0, Str(NewId)}

(***************************************************************************)
(* Vocabulary of the properties about payload shapes                       *)
(***************************************************************************)
\* the loop body has been applied to the event (fn.args[2], fn.args[3])
BodyApplied == fn.name = "loop_body" /\ fn.done

RECURSIVE HasContent(_)
\* some mapping or object in v has a non-null content field
HasContent(v) ==
    \/ v.t \in {"dict", "obj"} /\ ~IsNone(Lookup(v, "content"))
    \/ /\ v.t \in {"list", "dict", "obj"}
       /\ \E k \in DOMAIN v.items : HasContent(v.items[k])

\* v holds no text and no metadata map for any rule to find
Barren(v) == ~HasContent(v) /\ AllMetadata(v) = <<>>

(***************************************************************************)
(* C29: whatever the shape of an event's payload, the loop body completes  *)
(* and yields the locals of the attempt (it does not raise into the error  *)
(* path); when the payload holds no text and no metadata map, the final    *)
(* text, the token buffer and the metadata are what they were before the   *)
(* event, and nothing is surfaced.                                         *)
(***************************************************************************)
C29_NoShapeFatal ==
    BodyApplied =>
        LET before == fn.out[1]
            after  == fn.out[2]
        IN  /\ DOMAIN after = DOMAIN FreshLocals
            /\ after.printed_any \in BOOLEAN
            /\ Barren(fn.args[3]) =>
                /\ after.last_text = before.last_text
                /\ after.assembled_text = before.assembled_text
                /\ after.last_metadata = before.last_metadata
                /\ after.out = <<>>

\* C29 witness: a values event whose payload is a list of scalars came after
\* an answer with irbot metadata; answer and metadata are as before
C29_Witness ==
    /\ BodyApplied
    /\ fn.args = <<Int(<<4>>), Str(<<"values">>),
                   List(<<Int(<<"7">>), None,
                          Dict(<<"run_id">>, <<Str(<<"r">>)>>)>>)>>
    /\ fn.out[2].last_text = <<"B">>
    /\ fn.out[2].last_metadata = IrbotMd

(***************************************************************************)
(* C28: with an audit log configured, every event taken from the stream    *)
(* during a send, whichever attempt takes it, adds exactly its own record  *)
(* at the end of the log.                                                  *)
(***************************************************************************)
C28_EveryEventLogged ==
    [][(Truthy(cli.stream_log) /\ Len(evlog') = Len(evlog) + 1)
         => cli.log' = Append(cli.log, evlog'[Len(evlog')])]_vars

(***************************************************************************)
(* C26: at most one call of runs.stream is open at any time, and it is the *)
(* latest call made: a retry is started only once the stream of the failed *)
(* attempt has ended, and the loop starts the send of the next turn only   *)
(* once the send of the previous turn has returned.                        *)
(***************************************************************************)
C26_OneStreamOutstanding ==
    /\ \A k \in StreamCalls : calls[k].end = "open" => k = Len(calls)
    /\ (pc = "stream") = (calls # <<>> /\ calls[Len(calls)].end = "open")

\* C26 witness: in its second turn the loop is in the threadless fallback,
\* the sixth stream of the session, after a first turn that went the same way
C26_Witness ==
    /\ cli.mode = "interactive"
    /\ cli.turns = 1
    /\ pc = "stream"
    /\ attempt = 2
    /\ Cardinality(StreamCalls) = 6

(***************************************************************************)
(* C27: when a send returns empty text and has surfaced nothing, what is   *)
(* printed next holds the line "Agent: <no response>", in interactive mode *)
(* and in single-message mode alike.                                       *)
(***************************************************************************)
C27_PlaceholderRendered ==
    [][(pc = "done" /\ pc' = "idle" /\ result.text = <<>> /\ ~result.printed)
         => \E k \in DOMAIN cli.out' :
                cli.out'[k] = Line("agent", NoResponse)]_vars

(***************************************************************************)
(* Vocabulary of the properties about the backend-proxy agent              *)
(***************************************************************************)
\* a turn of the agent has ended
TurnDone == fn.name = "agent" /\ fn.done

\* the backend query of the turn raised
BackendRaised ==
    TurnDone /\ fn.out.queries # <<>> /\ IsRaised(fn.out.answer)

\* the messages of a history (none when nothing was saved)
HistoryOf(h) == IF IsList(h) THEN h.items ELSE <<>>

(***************************************************************************)
(* C30: when the backend query raises, the turn returns the assistant      *)
(* message "Backend error: <detail>", and the history the next turn will   *)
(* be given is the history this turn was given.                            *)
(***************************************************************************)
C30_BackendErrorKeepsHistory ==
    BackendRaised =>
        /\ fn.out.value = AIMessage(<<"Backend error: ">> \o fn.out.answer.s)
        /\ HistoryOf(fn.out.save) = HistoryOf(fn.args.previous)

(***************************************************************************)
(* Vocabulary of the properties about the extraction of the answer text    *)
(***************************************************************************)
Extracted == fn.name = "_extract_text_from_response" /\ fn.done

\* the places, in the order answer, message, text, content, response, of
\* the keys under which data holds a string that is not blank
TextPlaces(data) ==
    { i \in 1..5 :
        LET k == <<"answer", "message", "text", "content", "response">>[i]
        IN  /\ \E j \in DOMAIN data.keys : data.keys[j] = k
            /\ \A j \in DOMAIN data.keys :
                  data.keys[j] = k =>
                      /\ data.items[j].t = "str"
                      /\ ~Blank(data.items[j].s) }

\* the value data holds under the i-th key of that order
FieldAt(data, i) ==
    data.items[CHOOSE j \in DOMAIN data.keys :
                 data.keys[j] =
                   <<"answer", "message", "text", "content", "response">>[i]]

(***************************************************************************)
(* C33: _extract_text_from_response returns the value of the first of the  *)
(* fields answer, message, text, content, response that holds a non-blank  *)
(* string, and the stringified response when there is none.                *)
(***************************************************************************)
C33_FirstNonBlankField ==
    Extracted =>
        LET data == fn.args[1]
        IN  IF TextPlaces(data) # {}
            THEN fn.out =
                   FieldAt(data, CHOOSE i \in TextPlaces(data) :
                                   \A j \in TextPlaces(data) : i <= j)
            ELSE fn.out = Str(PyStr(data))

\* C33 witness: the answer field is blank and the text field is not; the
\* text field's value is returned
C33_Witness ==
    /\ Extracted
    /\ fn.args[1] = Dict(<<"text", "answer">>,
                         <<Str(<<"T", "text">>), Str(<<" ">>)>>)
    /\ fn.out = Str(<<"T", "text">>)

(***************************************************************************)
(* Vocabulary of the properties about the shaping of the agent's reply     *)
(***************************************************************************)
\* the turn queried the backend and was answered with a mapping
Answered ==
    TurnDone /\ fn.out.queries # <<>> /\ fn.out.answer.t = "dict"

\* the type of a response: the first of responseType, type, format that it
\* holds with a truthy value, in lower case
TypeField(b) ==
    LET ts == <<Lookup(b, "responseType"), Lookup(b, "type"),
                Lookup(b, "format")>>
        at == { i \in 1..3 : Truthy(ts[i]) }
    IN  IF at = {} THEN <<>>
        ELSE LET v == ts[CHOOSE i \in at : \A j \in at : i <= j]
             IN  IF v.t # "str" THEN <<>>
                 ELSE [k \in DOMAIN v.s |->
                         IF v.s[k] \in {"Table", "TABLE"} THEN "table"
                         ELSE v.s[k]]

HoldsKey(b, k) == \E j \in DOMAIN b.keys : b.keys[j] = k

\* the response is classified tabular
Tabular(b) ==
    \/ TypeField(b) = <<"table">>
    \/ HoldsKey(b, "columns") /\ HoldsKey(b, "values")

\* the plain-text extraction of a response
PlainText(b) ==
    IF TextPlaces(b) # {}
    THEN FieldAt(b, CHOOSE i \in TextPlaces(b) :
                      \A j \in TextPlaces(b) : i <= j).s
    ELSE PyStr(b)

(***************************************************************************)
(* C32: when the backend's answer is classified tabular the reply's        *)
(* content is the explanation if the explanation task produced a non-empty *)
(* text, and the plain-text extraction of the answer if it produced an     *)
(* empty text or failed; otherwise the content is the plain-text           *)
(* extraction. The reply carries the metadata {irbot: answer} exactly when *)
(* the answer is classified tabular.                                       *)
(***************************************************************************)
C32_ResponseShaping ==
    Answered =>
        LET b == fn.out.answer
            e == fn.args.expl
            explained == e.t = "str" /\ e.s # <<>>
        IN  /\ Lookup(fn.out.value, "type") = Str(<<"ai">>)
            /\ Lookup(fn.out.value, "content") =
                 Str(IF Tabular(b) /\ explained THEN e.s ELSE PlainText(b))
            /\ Tabular(b) =>
                 Lookup(fn.out.value, "response_metadata") =
                   Dict(<<"irbot">>, <<b>>)
            /\ ~Tabular(b) => ~HoldsKey(fn.out.value, "response_metadata")

\* C32 witness: an answer with columns and values but no type, and the
\* explanation task failed: the reply is the answer's message, with metadata
C32_Witness ==
    /\ Answered
    /\ HoldsKey(fn.out.answer, "columns")
    /\ TypeField(fn.out.answer) = <<>>
    /\ fn.args.expl.t = "raise"
    /\ Lookup(fn.out.value, "content") = Str(<<"A">>)
    /\ HoldsKey(fn.out.value, "response_metadata")

(***************************************************************************)
(* Vocabulary of the properties about the agent's use of the backend       *)
(***************************************************************************)
\* m is a message of the user, whatever it holds
FromUser(m) ==
    \/ Lookup(m, "type") = Str(<<"human">>)
    \/ m.t = "dict" /\ Lookup(m, "role") \in {Str(<<"user">>), Str(<<"human">>)}

\* the places of the user's messages in the incoming list
UserPlaces == { i \in DOMAIN fn.args.messages.items :
                  FromUser(fn.args.messages.items[i]) }

\* the text of the latest message of the user
LatestUserText ==
    LET m == fn.args.messages.items[CHOOSE i \in UserPlaces :
                                      \A j \in UserPlaces : j <= i]
        c == Lookup(m, "content")
    IN  IF c.t = "str" THEN c.s ELSE IF c.t = "none" THEN <<>> ELSE PyStr(c)

\* there is nothing to ask the backend
NothingToAsk == UserPlaces = {} \/ Blank(LatestUserText)

FixedReplies ==
    { AIMessage(<<"No input message received.">>),
      AIMessage(<<"No user message found.">>), AIMessage(<<>>) }

(***************************************************************************)
(* C39: a turn queries the backend at most once, and only when the         *)
(* incoming messages hold a message of the user whose text is not blank;   *)
(* when the list is empty, holds no message of the user, or the latest     *)
(* message of the user is blank, the turn returns one of the fixed replies *)
(* without a query and saves no longer a history than it was given.        *)
(***************************************************************************)
C39_BackendOnlyForQuestions ==
    TurnDone =>
        /\ Len(fn.out.queries) <= 1
        /\ fn.out.queries # <<>> => ~NothingToAsk
        /\ NothingToAsk =>
             /\ fn.out.queries = <<>>
             /\ fn.out.value \in FixedReplies
             /\ Len(HistoryOf(fn.out.save)) <= Len(HistoryOf(fn.args.previous))

(***************************************************************************)
(* Vocabulary of the properties about the session id of the backend query  *)
(***************************************************************************)
Resolved == fn.name = "session_id" /\ fn.done

\* the ids a configuration holds, in the order thread_id, session_id,
\* thread (the top level before "configurable")
ConfigIds(config) ==
    LET conf == Lookup(config, "configurable")
    IN  << Lookup(config, "thread_id"), Lookup(conf, "thread_id"),
           Lookup(conf, "session_id"), Lookup(config, "thread"),
           Lookup(conf, "thread") >>

\* the session hint of a message
HintOf(m) == Lookup(Lookup(m, "additional_kwargs"), "session_id")

\* the session id the claim expects for a configuration and a message
ExpectedSession(config, m) ==
    LET ids == ConfigIds(config)
        at  == { i \in 1..5 : ids[i].t = "str" /\ ids[i].s # <<>> }
    IN  IF at # {} THEN ids[CHOOSE i \in at : \A j \in at : i <= j]
        ELSE IF HintOf(m).t = "str" /\ HintOf(m).s # <<>> THEN HintOf(m)
        ELSE Str(<<"unknown">>)

(***************************************************************************)
(* C38: the backend is queried with the first id the run configuration     *)
(* holds under thread_id, session_id, thread; with the message's session   *)
(* hint only when the configuration holds none; with "unknown" when there  *)
(* is no hint either. For the configuration and message the client builds  *)
(* for a session id S, the backend is queried with S.                      *)
(***************************************************************************)
C38_SessionResolution ==
    Resolved =>
        /\ Len(fn.out.queries) = 1
        /\ fn.out.queries[1].session_id =
             ExpectedSession(fn.args[1], fn.args[2])
        /\ (fn.args[1] = BuildConfig(Str(OldId))
              /\ fn.args[2] = ClientMessage(BuildKwargs(Str(OldId))))
             => fn.out.queries[1].session_id = Str(OldId)

(***************************************************************************)
(* Vocabulary of the properties about the base agent                       *)
(***************************************************************************)
BaseDone == fn.name = "base" /\ fn.done

LlmRaised == BaseDone /\ fn.out.raised

(***************************************************************************)
(* C31: when the completion call raises in the base agent, the turn still  *)
(* returns an assistant message (the failure is recovered inside the agent *)
(* function), and the saved history is the one the turn started with.      *)
(***************************************************************************)
C31_LlmFailureRecovered ==
    LlmRaised =>
        /\ Len(fn.out.value) = 1
        /\ fn.out.value[1].type = "ai"
        /\ fn.out.save = fn.args.previous

(***************************************************************************)
(* Vocabulary of the properties about the saved history                    *)
(***************************************************************************)
\* the backend-proxy agent answered the turn: the backend returned a mapping
ProxySucceeded == Answered

\* the base agent answered the turn
BaseSucceeded == BaseDone /\ ~fn.out.raised

\* the contents of the messages of a list of the backend-proxy agent
RECURSIVE ContentsOf(_)
ContentsOf(ms) ==
    IF ms = <<>> THEN <<>>
    ELSE <<Lookup(ms[1], "content")>> \o ContentsOf(Tail(ms))

\* the messages of the user in the incoming list of the proxy agent
TurnUserMessages ==
    SelectSeq(fn.args.messages.items, LAMBDA m : FromUser(m))

\* type and content of the messages of a list of the base agent
RECURSIVE Gists(_)
Gists(ms) ==
    IF ms = <<>> THEN <<>>
    ELSE <<[type |-> ms[1].type, content |-> ms[1].content]>>
         \o Gists(Tail(ms))

\* the messages of the turn of the base agent that the history does not
\* hold under their id
NewToHistory ==
    SelectSeq(fn.args.messages,
              LAMBDA m : m.id = 0 \/ m.id \notin IdsOf(fn.args.previous.msgs))

(***************************************************************************)
(* C34 as stated: after a successful turn of either agent the saved        *)
(* history is the previous history, followed by the turn's user messages,  *)
(* followed by the assistant reply.                                        *)
(***************************************************************************)
C34_HistoryAppendOnly ==
    /\ ProxySucceeded =>
         /\ IsList(fn.out.save)
         /\ ContentsOf(fn.out.save.items) =
              ContentsOf(HistoryOf(fn.args.previous))
                \o ContentsOf(TurnUserMessages)
                \o <<Lookup(fn.out.value, "content")>>
    /\ BaseSucceeded =>
         Gists(fn.out.save.msgs) =
           Gists(fn.args.previous.msgs) \o Gists(fn.args.messages)
             \o Gists(fn.out.value)

(***************************************************************************)
(* C34 amended: after a successful turn the saved history has the length   *)
(* of the previous history plus the appended messages plus one, and the    *)
(* assistant reply is its last element. The backend-proxy agent keeps the  *)
(* previous history unchanged and appends one user message, holding the    *)
(* text the backend was queried with. The base agent appends the turn's    *)
(* messages whose id the history does not hold, in order; a message whose  *)
(* id the history holds takes the place of the entry with that id, and     *)
(* every other entry stays unchanged and in place.                         *)
(***************************************************************************)
C34_HistoryAppendsOrReplaces ==
    /\ ProxySucceeded =>
         /\ IsList(fn.out.save)
         /\ fn.out.save.items =
              HistoryOf(fn.args.previous)
                \o <<HumanMessage(Str(fn.out.queries[1].query)), fn.out.value>>
    /\ BaseSucceeded =>
         LET prev == fn.args.previous.msgs
             sv   == fn.out.save.msgs
             n    == Len(prev)
             k    == Len(NewToHistory)
         IN  /\ Len(sv) = n + k + 1
             /\ \A i \in 1..n :
                  IF \E j \in 1..Len(fn.args.messages) :
                        fn.args.messages[j].id = prev[i].id
                  THEN \E j \in 1..Len(fn.args.messages) :
                          sv[i] = fn.args.messages[j]
                  ELSE sv[i] = prev[i]
             /\ Gists(SubSeq(sv, n + 1, n + k)) = Gists(NewToHistory)
             /\ Gists(<<sv[n + k + 1]>>) = Gists(fn.out.value)

\* C34 witness: a second turn of the base agent whose message carries the
\* id of an entry of the history; the entry is replaced, nothing but the
\* reply is appended
C34_Witness ==
    /\ BaseSucceeded
    /\ fn.args.previous.set
    /\ Len(fn.out.save.msgs) = Len(fn.args.previous.msgs) + 1
    /\ fn.args.previous.msgs[1].content = "p"
    /\ fn.out.save.msgs[1].content = "q"

(***************************************************************************)
(* Vocabulary of the properties about the retry with the new session id    *)
(***************************************************************************)
\* the stream attempts of the send made with the session id sid
AttemptsWith(sid) == { k \in StreamCalls : calls[k].thread = sid }

\* the retry of the send: its second stream attempt, made with a session id
Retries == { k \in StreamCalls : calls[k].attempt = 1 /\ Truthy(calls[k].thread) }

(***************************************************************************)
(* C35 as stated: a send returns a non-null updated session id only when   *)
(* a stream attempt made with that id closed normally.                     *)
(***************************************************************************)
C35_UpdatedOnlyAfterSuccess ==
    (Done /\ Truthy(result.updated)) =>
        \E k \in AttemptsWith(result.updated) : calls[k].end = "closed"

(***************************************************************************)
(* C35 amended: a send returns a non-null updated session id exactly when  *)
(* it retried with a newly created id, and the id returned is the id of    *)
(* that retry, whether the retry closed normally or raised (a not-found    *)
(* error followed by the threadless run, or any other error).              *)
(***************************************************************************)
C35_UpdatedWheneverRetried ==
    Done =>
        /\ Truthy(result.updated) <=> Retries # {}
        /\ \A k \in Retries :
              /\ calls[k].thread = result.updated
              /\ calls[k].end \in {"closed", "raised"}

\* C35 witness: the retry with the new id raises a server error, and the
\* send returns the new id with the empty result
C35_Witness ==
    /\ Done
    /\ \E k \in Retries :
          calls[k].end = "raised" /\ ~IsNotFound(calls[k].err)
    /\ result.updated = Str(NewId)
    /\ result.text = <<>>

(***************************************************************************)
(* Vocabulary of the properties about the session id of the loop           *)
(***************************************************************************)
\* the interactive loop is about to read a line
TurnStarts == cli.mode = "interactive" /\ cli.at = "prompt" /\ pc = "idle"

\* a session-loss recovery of this run created a session
Recovered ==
    \E k \in DOMAIN calls : calls[k].op = "create" /\ calls[k].end = "returned"

(***************************************************************************)
(* C36: when every write of the thread file succeeds, at the start of      *)
(* every turn of the interactive loop a non-null session id held by the    *)
(* loop is the id the thread file holds.                                   *)
(***************************************************************************)
C36_LoopIdIsPersisted ==
    (TurnStarts /\ Truthy(cli.thread_id)) => file = cli.thread_id

\* C36 witness: a turn starts after a recovery that replaced the session
\* the loop began with; loop and file hold the id the recovery created
C36_Witness ==
    /\ TurnStarts
    /\ Recovered
    /\ cli.turns >= 1
    /\ Truthy(cli.thread_id)
    /\ cli.thread_id # Str(OldId)
    /\ calls[1].thread = Str(OldId)
    /\ file = cli.thread_id

(***************************************************************************)
(* Vocabulary of the properties about --reset-thread                       *)
(***************************************************************************)
\* the run was started with --reset-thread
ForceNew == cli.mode \in Modes /\ cli.reset_thread

\* a stream attempt of the run was made with the id OldId, the only id a
\* thread file holds before a run starts
UsesPersistedId ==
    \E k \in StreamCalls : calls[k].thread = Str(OldId)

(***************************************************************************)
(* C37: in a run started with --reset-thread, in single-message and in     *)
(* interactive mode, no stream attempt is made with the session id the     *)
(* thread file held before the run started.                                *)
(***************************************************************************)
C37_ForceNewNeverUsesOld == ForceNew => ~UsesPersistedId

(***************************************************************************)
(* Vocabulary of the properties about the diagnostics                      *)
(***************************************************************************)
\* the second of the two sends has returned
BothReturned == fn.name = "script" /\ fn.done /\ pc = "done"

(***************************************************************************)
(* C40: a send with --debug-stream and --stream-log set in any way, also   *)
(* with a log path that cannot be written, returns the text, metadata,     *)
(* flag and updated session id, and makes the remote calls, of the send    *)
(* with the same inputs and the same remote events and errors and no       *)
(* diagnostics.                                                            *)
(***************************************************************************)
C40_DiagnosticsDoNotInterfere ==
    BothReturned =>
        /\ result.text = fn.out.result.text
        /\ result.metadata = fn.out.result.metadata
        /\ result.printed = fn.out.result.printed
        /\ result.updated = fn.out.result.updated
        /\ calls = fn.out.calls

\* C40 witness: the second send echoes its events and has a log path that
\* cannot be written, loses its session and returns the text of the retry
C40_Witness ==
    /\ BothReturned
    /\ cli.debug_stream
    /\ cli.stream_log = UnwritablePath
    /\ cli.echo # <<>>
    /\ cli.log = <<>>
    /\ Len(calls) >= 3
    /\ result.text # <<>>

====
